---- MODULE Spec2Model ----
(***************************************************************************)
(* InfoTracker: column-level lineage extraction for T-SQL.                 *)
(*                                                                         *)
(* The module models the object/database registry (ObjectDbRegistry), the  *)
(* parser's per-file state and name resolution (SqlParser), and the        *)
(* extraction loop of the engine (Engine.run_extract).  Identifiers are    *)
(* strings; the lower-casing the code applies to registry keys is the      *)
(* finite map LowerMap.                                                    *)
(***************************************************************************)
EXTENDS Integers, Sequences, FiniteSets, TLC

None == "<none>"

(* ------------------------------------------------------------------ *)
(* Bounds                                                               *)
(* ------------------------------------------------------------------ *)
MaxLearn == 3

MaxParses == 2

MaxStmts == 3

(* ------------------------------------------------------------------ *)
(* Names                                                                *)
(* ------------------------------------------------------------------ *)
\* An identifier is the sequence of its dot-separated segments:
\* "DbA.dbo.Ref" is <<"DbA", "dbo", "Ref">>, "tempdb..#x" is <<"tempdb", "", "#x">>.
DBs == {"DbA", "DbB"}

DEFAULT_DB == "InfoTrackerDW"

TEMP_DB == "tempdb"

ObjTypes == {"table", "view", "function", "procedure"}

TempNames == {"#x", "#y"}

SchemaTables == {<<"dbo", "Ref">>, <<"dbo", "ref">>, <<"dbo", "T">>}

LowerMap == [s \in {"Ref", "T", "A", "B", "V", "Table", "View", "DbA", "DbB", "TABLE",
                    "VIEW", "StoredProcedure", "Function", "FUNCTION"} |->
               CASE s = "Ref" -> "ref"
                 [] s = "T" -> "t"
                 [] s = "A" -> "a"
                 [] s = "B" -> "b"
                 [] s = "V" -> "v"
                 [] s = "Table" -> "table"
                 [] s = "View" -> "view"
                 [] s = "DbA" -> "dba"
                 [] s = "DbB" -> "dbb"
                 [] s = "TABLE" -> "table"
                 [] s = "VIEW" -> "view"
                 [] s = "StoredProcedure" -> "storedprocedure"
                 [] s = "Function" -> "function"
                 [] s = "FUNCTION" -> "function"]

Lower(s) == IF s \in DOMAIN LowerMap THEN LowerMap[s] ELSE s

LowerName(n) == [i \in 1..Len(n) |-> Lower(n[i])]

_key(obj_type, schema_table) == <<Lower(obj_type)>> \o LowerName(schema_table)

_wild(schema_table) == <<"*">> \o LowerName(schema_table)

VARIABLES registry, learned, parser, call, ret, parses, engine

vars == <<registry, learned, parser, call, ret, parses, engine>>

(* ------------------------------------------------------------------ *)
(* ObjectDbRegistry                                                     *)
(* ------------------------------------------------------------------ *)
\* hard: key -> database; soft: key -> Counter, kept as the sequence of
\* <<database, count>> pairs in insertion order.  Both are dictionaries.
EmptyMap == [k \in {} |-> None]

Put(m, k, v) == [x \in (DOMAIN m) \cup {k} |-> IF x = k THEN v ELSE m[x]]

\* dict.get(k, default)
Get(m, k, default) == IF k \in DOMAIN m THEN m[k] ELSE default

EmptyRegistry == [hard |-> EmptyMap, soft |-> EmptyMap]

CounterAdd(c, db, n) ==
    IF \E i \in 1..Len(c) : c[i][1] = db
    THEN [i \in 1..Len(c) |-> IF c[i][1] = db THEN <<db, c[i][2] + n>> ELSE c[i]]
    ELSE Append(c, <<db, n>>)

\* The index of the largest count among the entries S of a Counter, the
\* first inserted one on a tie.
TopIndex(c, S) ==
    CHOOSE i \in S : /\ \A j \in S : c[j][2] <= c[i][2]
                     /\ \A j \in S : j < i => c[j][2] < c[i][2]

TopTwo(c, first) ==
    IF Len(c) = 1 THEN <<c[first]>>
    ELSE <<c[first], c[TopIndex(c, (1..Len(c)) \ {first})]>>

\* Counter.most_common(2): the two largest counts, ties in insertion order.
most_common2(c) ==
    IF Len(c) = 0 THEN <<>> ELSE TopTwo(c, TopIndex(c, 1..Len(c)))

learn_from_create(reg, obj_type, schema_table, db) ==
    IF schema_table # <<>> /\ db # None /\ db # ""
    THEN [reg EXCEPT !.hard = Put(@, _key(obj_type, schema_table), db)]
    ELSE reg

learn_from_targetsWeightOne(reg, schema_table, db) ==
    IF schema_table # <<>> /\ db # None /\ db # ""
    THEN [reg EXCEPT !.hard = Put(@, _wild(schema_table), db),
                     !.soft = Put(@, _wild(schema_table),
                                  CounterAdd(Get(@, _wild(schema_table), <<>>), db, 1))]
    ELSE reg

learn_from_targets(reg, schema_table, db) ==
    IF schema_table # <<>> /\ db # None /\ db # ""
    THEN [reg EXCEPT !.hard = Put(@, _wild(schema_table), db),
                     !.soft = Put(@, _wild(schema_table),
                                  CounterAdd(Get(@, _wild(schema_table), <<>>), db, 10))]
    ELSE reg

learn_from_references(reg, schema_table, db) ==
    IF schema_table # <<>> /\ db # None /\ db # ""
    THEN [reg EXCEPT !.soft = Put(@, _wild(schema_table),
                                  CounterAdd(Get(@, _wild(schema_table), <<>>), db, 1))]
    ELSE reg

\* c = self.soft.get(k1) or self.soft.get(k2)
SoftCounter(reg, k1, k2) ==
    IF Get(reg.soft, k1, <<>>) # <<>> THEN reg.soft[k1] ELSE Get(reg.soft, k2, <<>>)

WinnerOnTie(top) ==
    IF Len(top) = 1 \/ (Len(top) > 1 /\ top[1][2] >= top[2][2]) THEN top[1][1] ELSE None

\* The top entry of most_common(2) wins when it is alone or strictly ahead.
Winner(top) ==
    IF Len(top) = 1 \/ (Len(top) > 1 /\ top[1][2] > top[2][2]) THEN top[1][1] ELSE None

\* return fallback or "InfoTrackerDW"
FallbackOrDefault(fallback) ==
    IF fallback # None /\ fallback # "" THEN fallback ELSE DEFAULT_DB

ResolveKeys(reg, k1, k2, winner, fallback) ==
    IF k1 \in DOMAIN reg.hard THEN reg.hard[k1]
    ELSE IF k2 \in DOMAIN reg.hard THEN reg.hard[k2]
    ELSE IF winner # None THEN winner
    ELSE FallbackOrDefault(fallback)

resolveTieWins(reg, obj_type, schema_table, fallback) ==
    ResolveKeys(reg, _key(obj_type, schema_table), _wild(schema_table),
                WinnerOnTie(most_common2(SoftCounter(reg, _key(obj_type, schema_table),
                                                     _wild(schema_table)))),
                fallback)

resolve(reg, obj_type, schema_table, fallback) ==
    ResolveKeys(reg, _key(obj_type, schema_table), _wild(schema_table),
                Winner(most_common2(SoftCounter(reg, _key(obj_type, schema_table),
                                                _wild(schema_table)))),
                fallback)

(* ------------------------------------------------------------------ *)
(* SqlParser: names and database resolution                             *)
(* ------------------------------------------------------------------ *)
PSEUDO == {"view", "function", "procedure"}

Last(seq) == seq[Len(seq)]

NonEmptySeg(x) == x # ""

\* name.startswith('#') or 'tempdb..#' in name
IsTempName(name) ==
    /\ name # <<>>
    /\ \/ name[1] \in TempNames
       \/ \E i \in 1..(Len(name) - 2) :
            name[i] = TEMP_DB /\ name[i + 1] = "" /\ name[i + 2] \in TempNames

\* self.current_database or self.default_database
ContextDb(p) ==
    IF p.current_database # None THEN p.current_database ELSE p.default_database

ContextOrDefaultDb(p) == IF ContextDb(p) # None THEN ContextDb(p) ELSE DEFAULT_DB

_cached_split_fqn_core(fqn) ==
    IF Len(fqn) >= 3 THEN <<fqn[1], fqn[2], SubSeq(fqn, 3, Len(fqn))>>
    ELSE IF Len(fqn) = 2 THEN <<None, fqn[1], <<fqn[2]>> >>
    ELSE <<None, "dbo", fqn>>

_split_fqn(p, fqn) ==
    LET core == _cached_split_fqn_core(fqn)
    IN IF core[1] = None THEN <<ContextDb(p), core[2], core[3]>> ELSE core

\* The non-empty segments, without a leading pseudo-catalog.
Parts(raw) == IF Len(raw) >= 3 /\ Lower(raw[1]) \in PSEUDO THEN Tail(raw) ELSE raw

SchemaTableOf(parts) ==
    IF Len(parts) >= 2 THEN SubSeq(parts, Len(parts) - 1, Len(parts))
    ELSE IF Len(parts) = 1 THEN <<"dbo", parts[1]>>
    ELSE <<>>

ResolveDbContextFirst(p, reg, obj_type_hint, parts, schema_table) ==
    IF Len(parts) >= 3 THEN parts[1]
    ELSE IF ContextDb(p) # None THEN ContextDb(p)
    ELSE IF p.has_registry /\ schema_table # <<>>
    THEN resolve(reg, obj_type_hint, schema_table, ContextOrDefaultDb(p))
    ELSE ContextOrDefaultDb(p)

\* The database of a name: its own, else the registry's, else the context's.
ResolveDb(p, reg, obj_type_hint, parts, schema_table) ==
    IF Len(parts) >= 3 THEN parts[1]
    ELSE IF p.has_registry /\ schema_table # <<>>
    THEN resolve(reg, obj_type_hint, schema_table, ContextOrDefaultDb(p))
    ELSE ContextOrDefaultDb(p)

NsAndNameOfParts(p, reg, table_name, obj_type_hint, parts, schema_table) ==
    IF p.dbt_mode
    THEN [ns |-> ContextOrDefaultDb(p),
          nm |-> <<p.default_schema, IF parts # <<>> THEN Last(parts) ELSE "">>]
    ELSE [ns |-> ResolveDb(p, reg, obj_type_hint, parts, schema_table),
          nm |-> IF schema_table # <<>> THEN schema_table ELSE table_name]

_ns_and_name(p, reg, table_name, obj_type_hint) ==
    IF IsTempName(table_name) THEN [ns |-> TEMP_DB, nm |-> table_name]
    ELSE NsAndNameOfParts(p, reg, table_name, obj_type_hint,
                          Parts(SelectSeq(table_name, NonEmptySeg)),
                          SchemaTableOf(Parts(SelectSeq(table_name, NonEmptySeg))))

_get_full_table_name(p, table_name) ==
    IF Len(table_name) = 1 THEN <<ContextOrDefaultDb(p), "dbo">> \o table_name
    ELSE IF Len(table_name) = 2 THEN <<ContextOrDefaultDb(p)>> \o table_name
    ELSE IF Len(table_name) = 3 THEN table_name
    ELSE <<ContextOrDefaultDb(p), "dbo">> \o table_name

\* openlineage_utils.qualify_identifier: a schema.table name gets the database
\* in front when one is known.
qualify_identifier(identifier, default_database) ==
    IF Len(identifier) = 2 /\ default_database # None
    THEN <<default_database>> \o identifier
    ELSE identifier

_get_table_name(p, written) ==
    LET catalog == IF Len(written) = 3 /\ Lower(written[1]) \notin PSEUDO
                   THEN written[1] ELSE None
        bare == IF Len(written) = 3 THEN Tail(written) ELSE written
        full_name == IF catalog # None THEN written
                     ELSE qualify_identifier(bare, ContextDb(p))
    IN IF full_name # <<>> /\ full_name[1] \in TempNames
       THEN <<TEMP_DB, "", full_name[1]>>
       ELSE full_name

\* The top database of the Counter when it is alone or strictly ahead.
_choose_db(counter) == Winner(most_common2(counter))

(* ------------------------------------------------------------------ *)
(* SQL files                                                            *)
(* ------------------------------------------------------------------ *)
\* A file is what the parser reads off its text: the leading lines up to the
\* first statement (header), the numbers of CREATE TABLE / FUNCTION /
\* PROCEDURE keywords, whether sqlglot parses the text (ast_ok), the identifier
\* after CREATE (name), the column names of a CREATE TABLE (cols), the
\* database.schema.table names written in the body besides those of the
\* statements (extra_refs) and the statements of the body or script (stmts).
NoFile == [header |-> <<>>, n_table |-> 0, n_function |-> 0, n_procedure |-> 0,
           ast_ok |-> TRUE, seg_ok |-> TRUE, name |-> <<>>, cols |-> <<>>, extra_refs |-> <<>>,
           stmts |-> <<>>]

NoStatement == NoFile

USE_SCAN_LINES == 10

REF_WEIGHT == 1

TARGET_WEIGHT == 3

IsUseLine(line) == line[1] = "USE"

\* A line the scan continues after: it starts with USE, DECLARE, SET or PRINT.
IsPreambleLine(line) == line[1] \in {"USE", "DECLARE", "SET", "PRINT"}

IsSkippedLine(line) == line[1] \in {"", "--"}

RECURSIVE UseScan(_, _)
UseScan(lines, i) ==
    IF i > Len(lines) \/ i > USE_SCAN_LINES THEN None
    ELSE IF IsSkippedLine(lines[i]) THEN UseScan(lines, i + 1)
    ELSE IF IsUseLine(lines[i]) THEN lines[i][2]
    ELSE IF ~IsPreambleLine(lines[i]) THEN None
    ELSE UseScan(lines, i + 1)

_extract_database_from_use_statement(content) == UseScan(content.header, 1)

\* The statements whose text holds the word INTO.
INTO_KINDS == {"select_into", "insert_select", "insert_exec"}

HasLater(stmts, i, kinds) == \E j \in (i + 1)..Len(stmts) : stmts[j].kind \in kinds

\* The pattern of _cut_to_first_statement matches at the first word of
\* statement i: CREATE VIEW, SELECT followed by INTO anywhere later in the
\* text, INSERT INTO followed by EXEC anywhere later in the text.
MatchesAtStart(stmts, i) ==
    \/ stmts[i].kind \in {"create_view", "select_into", "insert_exec"}
    \/ stmts[i].kind = "select" /\ HasLater(stmts, i, INTO_KINDS)
    \/ stmts[i].kind = "insert_select" /\ HasLater(stmts, i, {"insert_exec"})

\* It matches at the SELECT of INSERT INTO ... SELECT when an INTO follows.
MatchesInside(stmts, i) ==
    stmts[i].kind = "insert_select" /\ HasLater(stmts, i, INTO_KINDS)

RECURSIVE CutAt(_, _)
CutAt(stmts, i) ==
    IF i > Len(stmts) THEN stmts
    ELSE IF MatchesAtStart(stmts, i) THEN SubSeq(stmts, i, Len(stmts))
    ELSE IF MatchesInside(stmts, i)
    THEN << [stmts[i] EXCEPT !.kind = "select", !.target = <<>>, !.collist = <<>>] >>
           \o SubSeq(stmts, i + 1, Len(stmts))
    ELSE CutAt(stmts, i + 1)

\* The text from the first match of the pattern on; a text that opens with
\* its CREATE is kept whole.
_cut_to_first_statement(sql) ==
    IF sql.n_table + sql.n_function + sql.n_procedure > 0 THEN sql
    ELSE [sql EXCEPT !.stmts = CutAt(@, 1)]

\* _preprocess_sql, as far as the parser's state goes: the database context.
_preprocess_sql(p, sql) ==
    LET db_from_use == _extract_database_from_use_statement(sql)
    IN [p EXCEPT !.current_database =
                    IF db_from_use # None THEN db_from_use ELSE p.default_database]

\* The database.schema.table names of a text, in the order written, each with
\* the regex that finds it: "ref", "insert" (INSERT INTO) or "into" (SELECT INTO).
NameRefs(name, tag) ==
    IF Len(name) = 3 /\ name[1] # "" /\ Lower(name[1]) \notin (PSEUDO \cup {TEMP_DB})
    THEN << <<name[1], tag>> >> ELSE <<>>

RECURSIVE FromRefs(_)
FromRefs(names) ==
    IF names = {} THEN <<>>
    ELSE LET n == CHOOSE x \in names : TRUE
         IN NameRefs(n, "ref") \o FromRefs(names \ {n})

StmtRefs(st) ==
    NameRefs(st.target, IF st.kind = "select_into" THEN "into"
                        ELSE IF st.kind \in {"insert_select", "insert_exec"} THEN "insert"
                        ELSE "ref")
      \o FromRefs(st.from)

RECURSIVE StmtsRefs(_)
StmtsRefs(stmts) ==
    IF stmts = <<>> THEN <<>> ELSE StmtRefs(Head(stmts)) \o StmtsRefs(Tail(stmts))

TextRefs(sql) ==
    NameRefs(sql.name, "ref")
      \o [i \in 1..Len(sql.extra_refs) |-> <<sql.extra_refs[i], "ref">>]
      \o StmtsRefs(sql.stmts)

RECURSIVE CountRefs(_, _, _)
CountRefs(refs, tags, c) ==
    IF refs = <<>> THEN c
    ELSE CountRefs(Tail(refs), tags,
                   IF Head(refs)[2] \in tags
                   THEN CounterAdd(c, Head(refs)[1],
                                   IF tags = {"ref", "insert", "into"}
                                   THEN REF_WEIGHT ELSE TARGET_WEIGHT)
                   ELSE c)

_infer_db_candidates_from_sql(sql_text) ==
    LET refs == TextRefs(sql_text)
        c1 == CountRefs(refs, {"ref", "insert", "into"}, <<>>)
        c2 == CountRefs(refs, {"insert"}, c1)
    IN CountRefs(refs, {"into"}, c2)

\* Table references count 1 and INSERT targets 3 more in the AST scan.
_infer_db_candidates_from_ast(node) ==
    LET refs == TextRefs(node)
        c1 == CountRefs(refs, {"ref", "insert", "into"}, <<>>)
    IN CountRefs(refs, {"insert"}, c1)

RECURSIVE CounterSum(_, _)
CounterSum(c, d) ==
    IF d = <<>> THEN c ELSE CounterSum(CounterAdd(c, Head(d)[1], Head(d)[2]), Tail(d))

\* statement: the parsed CREATE statement, or NoStatement on the string paths.
_infer_database_for_object(p, statement, sql_text) ==
    LET c1 == IF statement # NoStatement THEN _infer_db_candidates_from_ast(statement) ELSE <<>>
        c == CounterSum(c1, _infer_db_candidates_from_sql(sql_text))
        db == _choose_db(c)
    IN IF db # None THEN db ELSE ContextDb(p)

(* ------------------------------------------------------------------ *)
(* SqlParser.parse_sql_file                                             *)
(* ------------------------------------------------------------------ *)
ObjectInfo(name, object_type, namespace, columns, lineage, dependencies, is_fallback) ==
    [name |-> name, object_type |-> object_type, namespace |-> namespace,
     columns |-> columns, lineage |-> lineage, dependencies |-> dependencies,
     is_fallback |-> is_fallback, no_output_reason |-> None]

\* obj.no_output_reason = reason
WithReason(obj, reason) == [obj EXCEPT !.no_output_reason = reason]

\* The reason of a script object without output.
ScriptReason(p) ==
    IF p.current_database = None /\ p.default_database = None
    THEN "UNKNOWN_DB_CONTEXT" ELSE "NO_PERSISTENT_OUTPUT_DETECTED"

NoObj == ObjectInfo(<<>>, "none", None, <<>>, <<>>, {}, FALSE)

IdleCall == [pc |-> "idle", file |-> NoFile, stmts |-> <<>>, pos |-> 0, all_inputs |-> {},
             all_outputs |-> <<>>, last_persistent_output |-> NoObj, main |-> NoObj]

NoReturn == [kind |-> "none", obj |-> NoObj]

Returned(obj) == [kind |-> "object", obj |-> obj]

Raised == [kind |-> "raised", obj |-> NoObj]

\* Engine.run_extract before it is called.  disk: the stems of the JSON files
\* in out_dir; outputs: the rows returned.
\* self._column_graph = None
NoGraph == [run |-> 0, objects |-> 0]

IdleEngine == [pc |-> "idle", sql_files |-> <<>>, pos |-> 0, warnings |-> 0,
               outputs |-> <<>>, parsed_objects |-> 0, disk |-> {},
               _column_graph |-> NoGraph]

\* SqlParser.__init__ followed by set_default_database.
NewParser(default_database, has_registry) ==
    [default_database |-> default_database, current_database |-> None,
     has_registry |-> has_registry, dbt_mode |-> FALSE, default_schema |-> "dbo",
     raw_sql |-> NoFile, schema_registry |-> EmptyMap,
     cte_registry |-> EmptyMap, temp_registry |-> EmptyMap, temp_sources |-> EmptyMap,
     temp_lineage |-> EmptyMap, proc_acc |-> EmptyMap, temp_version |-> EmptyMap]

\* SchemaRegistry.register: (namespace, name) -> columns, keys compared
\* without case.
Register(p, namespace, name, columns) ==
    [p EXCEPT !.schema_registry = Put(@, <<Lower(namespace)>> \o LowerName(name), columns)]

SchemaGet(p, namespace, name) ==
    Get(p.schema_registry, <<Lower(namespace)>> \o LowerName(name), <<>>)

\* The route parse_sql_file takes from the numbers of CREATE keywords.
Route(sql) ==
    IF sql.n_table = 1 /\ sql.n_function = 0 /\ sql.n_procedure = 0 THEN "table"
    ELSE IF sql.n_function = 1 /\ sql.n_procedure = 0 THEN "function"
    ELSE IF sql.n_procedure = 1 /\ sql.n_function = 0 THEN "procedure"
    ELSE IF sql.n_function > 1 /\ sql.n_procedure = 0 THEN "function"
    ELSE "script"

ClearAllButVersions(p) ==
    [p EXCEPT !.cte_registry = EmptyMap,
              !.temp_registry = EmptyMap,
              !.temp_sources = EmptyMap,
              !.temp_lineage = EmptyMap,
              !.proc_acc = EmptyMap]

\* "Reset registries for each file to avoid contamination"
ClearPerFileState(p) ==
    [p EXCEPT !.cte_registry = EmptyMap,
              !.temp_registry = EmptyMap,
              !.temp_sources = EmptyMap,
              !.temp_lineage = EmptyMap,
              !.proc_acc = EmptyMap,
              !.temp_version = EmptyMap]

\* Entry of parse_sql_file: the database context goes back to the default,
\* the per-file registries are emptied, the route is chosen.
parse_sql_file(sql_content) ==
    /\ call.pc = "idle"
    /\ parses' = parses + 1
    /\ parser' = ClearPerFileState([parser EXCEPT
                                      !.current_database = parser.default_database,
                                      !.raw_sql = sql_content])
    /\ call' = [IdleCall EXCEPT !.pc = Route(sql_content), !.file = sql_content]
    /\ ret' = NoReturn
    /\ UNCHANGED <<engine, registry, learned>>

ExplicitDb(written) ==
    Len(written) >= 3 /\ Lower(written[1]) \notin (PSEUDO \cup {TEMP_DB})

\* The namespace of a created object: the database inferred for it unless
\* its name carries one.
CreatedNamespace(written, inferred_db, ns) ==
    IF ~ExplicitDb(written) /\ inferred_db # None THEN inferred_db ELSE ns

LearnCreated(p, reg, obj_type, fqn) ==
    IF p.has_registry /\ fqn[1] # None
    THEN learn_from_create(reg, obj_type, <<fqn[2]>> \o fqn[3], fqn[1])
    ELSE reg

CreateTableObject(p, sql, nn, inferred_db) ==
    ObjectInfo(nn.nm, "table", CreatedNamespace(sql.name, inferred_db, nn.ns), sql.cols,
               <<>>, {}, FALSE)

\* _parse_create_table (AST) and _parse_create_table_string (regex) agree on
\* the name and the namespace; only the AST handler teaches the registry.
_parse_create_table(p, reg, sql, statement) ==
    [obj |-> CreateTableObject(p, sql, _ns_and_name(p, reg, sql.name, "table"),
                               _infer_database_for_object(p, statement, sql)),
     reg |-> IF statement # NoStatement
             THEN LearnCreated(p, reg, "table", _split_fqn(p, sql.name))
             ELSE reg]

\* The CREATE TABLE route: the AST first, the regex reading when sqlglot fails.
ParseCreateTable ==
    /\ call.pc = "table"
    /\ \E r \in {_parse_create_table(_preprocess_sql(parser, call.file), registry, call.file,
                                     IF call.file.ast_ok THEN call.file ELSE NoStatement)} :
          /\ parser' = Register(_preprocess_sql(parser, call.file),
                                r.obj.namespace, r.obj.name, r.obj.columns)
          /\ registry' = r.reg
          /\ ret' = Returned(r.obj)
    /\ call' = IdleCall
    /\ UNCHANGED <<engine, learned, parses>>

(* ------------------------------------------------------------------ *)
(* Statement handlers                                                   *)
(* ------------------------------------------------------------------ *)
\* A statement is [kind, target, cols, from]: the written name of its target,
\* the names of the columns it projects and the written names it reads (for
\* INSERT ... EXEC, the procedure).  Written names carry no brackets or quotes.
_extract_dependencies(p, st) == {_get_table_name(p, t) : t \in st.from}

InputRef(nn, column) == <<nn.ns, nn.nm, column>>

UNKNOWN_COLUMNS == <<"unknown_1", "unknown_2", "unknown_3">>

_get_namespace_for_table(p, table_name) ==
    IF table_name[1] \in TempNames \/ IsTempName(table_name) THEN TEMP_DB
    ELSE ContextOrDefaultDb(p)

\* The registry chain of a column lookup: temp -> cte -> schema -> fallback.
_infer_table_columns_unified(p, table_name) ==
    IF <<Last(table_name), 0>> \in DOMAIN p.temp_registry
    THEN p.temp_registry[<<Last(table_name), 0>>]
    ELSE IF Last(table_name) \in DOMAIN p.cte_registry
    THEN p.cte_registry[Last(table_name)]
    ELSE IF SchemaGet(p, _get_namespace_for_table(p, table_name), table_name) # <<>>
    THEN SchemaGet(p, _get_namespace_for_table(p, table_name), table_name)
    ELSE UNKNOWN_COLUMNS

\* f"col_{ordinal}"
COL_N == <<"col_0", "col_1", "col_2", "col_3", "col_4", "col_5", "col_6",
           "col_7", "col_8", "col_9", "col_10", "col_11", "col_12">>

_has_star_expansion(select_stmt) ==
    \E i \in 1..Len(select_stmt.expressions) : select_stmt.expressions[i].star

_resolve_table_from_alias(p, alias, context) ==
    IF \E i \in 1..Len(context.tables) : context.tables[i].alias = alias
    THEN _get_table_name(p, context.tables[CHOOSE i \in 1..Len(context.tables) :
                                              context.tables[i].alias = alias].name)
    ELSE <<alias>>

_extract_column_alias(select_expr) ==
    IF select_expr.alias # None THEN select_expr.alias ELSE select_expr.column

\* The references of an explicit expression; the LITERAL reference when it
\* has none.
_extract_column_references(p, reg, select_expr, select_stmt) ==
    IF select_expr.column = None
       \/ (select_expr.table = None /\ Len(select_stmt.tables) # 1)
    THEN <<InputRef([ns |-> ContextOrDefaultDb(p), nm |-> <<"LITERAL">>], select_expr.sql)>>
    ELSE <<InputRef(_ns_and_name(p, reg,
                                 IF select_expr.table # None
                                 THEN _resolve_table_from_alias(p, select_expr.table, select_stmt)
                                 ELSE _get_table_name(p, select_stmt.tables[1].name),
                                 "table"),
                    select_expr.column)>>

NoColumns == [seen_columns |-> {}, output_columns |-> <<>>, lineage |-> <<>>]

\* One expanded column: appended unless its name was seen.
StarColumn(p, reg, acc, table_name, column_name, description) ==
    IF column_name \in acc.seen_columns THEN acc
    ELSE [seen_columns |-> acc.seen_columns \cup {column_name},
          output_columns |-> Append(acc.output_columns, column_name),
          lineage |-> Append(acc.lineage,
                             [output_column |-> column_name,
                              input_fields |->
                                 <<InputRef(_ns_and_name(p, reg, table_name, "table"),
                                            column_name)>>,
                              transformation_type |-> "IDENTITY",
                              transformation_description |-> description])]

RECURSIVE StarColumns(_, _, _, _, _, _)
StarColumns(p, reg, acc, table_name, columns, description) ==
    IF columns = <<>> THEN acc
    ELSE StarColumns(p, reg, StarColumn(p, reg, acc, table_name, Head(columns), description),
                     table_name, Tail(columns), description)

\* alias.* : the columns of the table the alias stands for.
QualifiedStar(p, reg, acc, table_name, alias) ==
    StarColumns(p, reg, acc, table_name, _infer_table_columns_unified(p, table_name),
                <<alias, ".*">>)

\* * : the columns of every table of the statement, in the order of the tables.
RECURSIVE UnqualifiedStar(_, _, _, _)
UnqualifiedStar(p, reg, acc, source_tables) ==
    IF source_tables = <<>> THEN acc
    ELSE UnqualifiedStar(p, reg,
                         StarColumns(p, reg, acc, Head(source_tables),
                                     _infer_table_columns_unified(p, Head(source_tables)),
                                     <<"SELECT *">>),
                         Tail(source_tables))

\* An explicit expression: appended under its alias or col_<ordinal>,
\* whatever was seen.
ExplicitColumn(p, reg, acc, select_expr, select_stmt, col_name) ==
    [seen_columns |-> acc.seen_columns,
     output_columns |-> Append(acc.output_columns, col_name),
     lineage |-> Append(acc.lineage,
                        [output_column |-> col_name,
                         input_fields |->
                            _extract_column_references(p, reg, select_expr, select_stmt),
                         transformation_type |-> "EXPRESSION",
                         transformation_description |-> <<"SELECT", select_expr.sql>>])]

StarStep(p, reg, acc, select_expr, select_stmt) ==
    IF select_expr.star /\ select_expr.table # None
    THEN QualifiedStar(p, reg, acc,
                       _resolve_table_from_alias(p, select_expr.table, select_stmt),
                       select_expr.table)
    ELSE IF select_expr.star
    THEN UnqualifiedStar(p, reg, acc,
                         [i \in 1..Len(select_stmt.tables) |->
                            _get_table_name(p, select_stmt.tables[i].name)])
    ELSE ExplicitColumn(p, reg, acc, select_expr, select_stmt,
                        IF _extract_column_alias(select_expr) # None
                        THEN _extract_column_alias(select_expr)
                        ELSE COL_N[Len(acc.output_columns) + 1])

RECURSIVE StarLoop(_, _, _, _, _)
StarLoop(p, reg, acc, expressions, select_stmt) ==
    IF expressions = <<>> THEN acc
    ELSE StarLoop(p, reg, StarStep(p, reg, acc, Head(expressions), select_stmt),
                  Tail(expressions), select_stmt)

_handle_star_expansion(p, reg, select_stmt) ==
    StarLoop(p, reg, NoColumns, select_stmt.expressions, select_stmt)

\* SELECT * FROM <table> as a statement of a file.
StarSelectOf(p, st) ==
    [expressions |-> << [sql |-> "*", star |-> TRUE, table |-> None, column |-> None,
                         alias |-> None] >>,
     tables |-> << [name |-> CHOOSE t \in st.from : TRUE, alias |-> None] >>]

\* The columns and lineage of the star expansion, inputs as sets.
StarLineage(expanded) ==
    [columns |-> expanded.output_columns,
     lineage |-> [i \in 1..Len(expanded.lineage) |->
                    [output_column |-> expanded.lineage[i].output_column,
                     input_fields |-> {expanded.lineage[i].input_fields[k] :
                                         k \in 1..Len(expanded.lineage[i].input_fields)}]]]

\* One lineage entry per projection, appended together with its column; a
\* projection list with a star goes to the star expansion.
_extract_column_lineage(p, reg, st) ==
    IF st.cols = <<"*">> /\ st.from # {}
    THEN StarLineage(_handle_star_expansion(p, reg, StarSelectOf(p, st)))
    ELSE [columns |-> st.cols,
          lineage |-> [i \in 1..Len(st.cols) |->
                         [output_column |-> st.cols[i],
                          input_fields |->
                             {InputRef(_ns_and_name(p, reg, _get_table_name(p, t), "table"),
                                       st.cols[i]) : t \in st.from}]]]

\* The "Learn target DB if explicit" block of the three target handlers.
LearnTarget(p, reg, raw_target) ==
    IF Len(raw_target) >= 3 /\ p.has_registry
    THEN learn_from_targets(reg, SubSeq(raw_target, 2, Len(raw_target)), raw_target[1])
    ELSE reg

_temp_next(p, name) ==
    [p EXCEPT !.temp_version = Put(@, name, Get(@, name, 0) + 1)]

\* "#x@2" is <<"#x", 2>>; the simple key "#x" is <<"#x", 0>>.
VerKey(p, name) == <<name, p.temp_version[name]>>

\* column -> input references of a lineage list
ColMap(lineage) ==
    [c \in {lineage[i].output_column : i \in 1..Len(lineage)} |->
        lineage[CHOOSE i \in 1..Len(lineage) :
                   /\ lineage[i].output_column = c
                   /\ \A j \in (i + 1)..Len(lineage) : lineage[j].output_column # c].input_fields]

\* The temp registries after ver_key = _temp_next(simple_key): p holds the
\* new version already.
RegisterTemp(p, simple_key, columns, dependencies, col_map) ==
    [p EXCEPT !.temp_registry = Put(Put(@, VerKey(p, simple_key), columns),
                                    <<simple_key, 0>>, columns),
              !.temp_sources = Put(@, simple_key, dependencies),
              !.temp_lineage = Put(Put(@, VerKey(p, simple_key), col_map),
                                   <<simple_key, 0>>, col_map)]

SelectIntoObject(p, reg1, nn, lc, dependencies) ==
    [p |-> Register(IF IsTempName(nn.nm)
                    THEN RegisterTemp(_temp_next(p, Last(nn.nm)), Last(nn.nm), lc.columns,
                                      dependencies, ColMap(lc.lineage))
                    ELSE p,
                    nn.ns, nn.nm, lc.columns),
     reg |-> reg1,
     obj |-> ObjectInfo(nn.nm, IF nn.nm[1] \in TempNames THEN "temp_table" ELSE "table",
                        nn.ns, lc.columns, lc.lineage, dependencies, FALSE)]

SelectIntoTarget(p, reg1, st, raw_target) ==
    SelectIntoObject(p, reg1, _ns_and_name(p, reg1, raw_target, "table"),
                     _extract_column_lineage(p, reg1, st), _extract_dependencies(p, st))

_parse_select_into(p, reg, st) ==
    SelectIntoTarget(p, LearnTarget(p, reg, _get_table_name(p, st.target)), st,
                     _get_table_name(p, st.target))

\* A temp dependency is replaced by the sources recorded for it, and dropped
\* when none are recorded.
ExpandTempDeps(p, dependencies) ==
    UNION {IF IsTempName(d) THEN Get(p.temp_sources, Last(d), {}) ELSE {d} :
             d \in dependencies}

\* table_name.startswith('#') or 'tempdb' in table_name
IsTempTarget(name) == name[1] \in TempNames \/ (\E i \in 1..Len(name) : name[i] = TEMP_DB)

InsertSelectObject(p, reg1, nn, lc, dependencies) ==
    [p |-> Register(IF IsTempTarget(nn.nm)
                    THEN [p EXCEPT !.temp_registry = Put(@, <<Last(nn.nm), 0>>, lc.columns)]
                    ELSE p,
                    nn.ns, nn.nm, lc.columns),
     reg |-> reg1,
     obj |-> ObjectInfo(nn.nm, IF IsTempTarget(nn.nm) THEN "temp_table" ELSE "table",
                        nn.ns, lc.columns, lc.lineage, dependencies, FALSE)]

InsertSelectTarget(p, reg1, st, raw_target) ==
    InsertSelectObject(p, reg1, _ns_and_name(p, reg1, raw_target, "table"),
                       _extract_column_lineage(p, reg1, st),
                       ExpandTempDeps(p, _extract_dependencies(p, st)))

_parse_insert_select(p, reg, st) ==
    InsertSelectTarget(p, LearnTarget(p, reg, _get_table_name(p, st.target)), st,
                       _get_table_name(p, st.target))

PLACEHOLDER_EXEC_COLUMNS == <<"output_col_1", "output_col_2">>

ProcOf(st) == CHOOSE x \in st.from : TRUE

\* Placeholder lineage pointing to the procedure: the column itself when the
\* INSERT names its columns, "*" otherwise.
ExecLineage(pn, output_columns, named) ==
    [i \in 1..Len(output_columns) |->
       [output_column |-> output_columns[i],
        input_fields |-> {InputRef(pn, IF named THEN output_columns[i] ELSE "*")}]]

InsertExecObject(p, reg1, st, nn, procedure_name, output_columns) ==
    [p |-> Register(p, nn.ns, nn.nm, output_columns),
     reg |-> reg1,
     obj |-> ObjectInfo(nn.nm, IF nn.nm[1] \in TempNames THEN "temp_table" ELSE "table",
                        nn.ns, output_columns,
                        ExecLineage(_ns_and_name(p, reg1, procedure_name, "table"),
                                    output_columns, st.collist # <<>>),
                        {procedure_name}, FALSE)]

InsertExecTarget(p, reg1, st, raw_target) ==
    IF st.from = {} THEN [p |-> p, reg |-> reg1, obj |-> NoObj]
    ELSE InsertExecObject(p, reg1, st, _ns_and_name(p, reg1, raw_target, "table"),
                          _get_full_table_name(p, ProcOf(st)),
                          IF st.collist # <<>> THEN st.collist ELSE PLACEHOLDER_EXEC_COLUMNS)

\* Raises when the EXEC command cannot be read (st.from is empty): obj is NoObj.
_parse_insert_exec(p, reg, st) ==
    InsertExecTarget(p, LearnTarget(p, reg, _get_table_name(p, st.target)), st,
                     _get_table_name(p, st.target))

\* The part of the text a CREATE statement of a script covers.
AstOf(st) == [NoFile EXCEPT !.name = st.target,
                            !.stmts = << [st EXCEPT !.kind = "select", !.target = <<>>] >>]

CreateViewObject(p, reg1, st, view_name, namespace, lc) ==
    [p |-> Register(p, namespace, view_name, lc.columns),
     reg |-> reg1,
     obj |-> ObjectInfo(view_name, "view", namespace, lc.columns, lc.lineage,
                        _extract_dependencies(p, st), FALSE)]

CreateViewNamed(p, reg, reg1, st, nn) ==
    CreateViewObject(p, reg1, st, nn.nm,
                     CreatedNamespace(st.target,
                                      _infer_database_for_object(p, AstOf(st), p.raw_sql),
                                      nn.ns),
                     _extract_column_lineage(p, reg1, st))

_parse_create_view(p, reg, st) ==
    CreateViewNamed(p, reg, LearnCreated(p, reg, "view", _split_fqn(p, st.target)), st,
                    _ns_and_name(p, reg, _get_table_name(p, st.target), "view"))

\* deps._expand_dependency_to_base_tables: a temp dependency becomes the base
\* sources stored for it.
_expand_dependency_to_base_tables(p, dep) ==
    IF IsTempName(dep) /\ Last(dep) \in DOMAIN p.temp_sources
    THEN p.temp_sources[Last(dep)] ELSE {dep}

\* ---- procedure accumulator: target -> sequence of <<column, inputs>> ----
AccAddOneOverwrites(acc, lin) ==
    IF \E i \in 1..Len(acc) : acc[i][1] = lin.output_column
    THEN [i \in 1..Len(acc) |->
            IF acc[i][1] = lin.output_column
            THEN <<acc[i][1], lin.input_fields>>
            ELSE acc[i]]
    ELSE Append(acc, <<lin.output_column, lin.input_fields>>)

AccAddOne(acc, lin) ==
    IF \E i \in 1..Len(acc) : acc[i][1] = lin.output_column
    THEN [i \in 1..Len(acc) |->
            IF acc[i][1] = lin.output_column
            THEN <<acc[i][1], acc[i][2] \cup lin.input_fields>>
            ELSE acc[i]]
    ELSE Append(acc, <<lin.output_column, lin.input_fields>>)

RECURSIVE AccAdd(_, _)
AccAdd(acc, col_lineage) ==
    IF col_lineage = <<>> THEN acc
    ELSE AccAdd(AccAddOne(acc, Head(col_lineage)), Tail(col_lineage))

_proc_acc_add(p, target_fqn, col_lineage) ==
    [p EXCEPT !.proc_acc = Put(@, target_fqn, AccAdd(Get(@, target_fqn, <<>>), col_lineage))]

AccLineage(acc) ==
    [i \in 1..Len(acc) |-> [output_column |-> acc[i][1], input_fields |-> acc[i][2]]]

_proc_acc_finalize(p, target_fqn) == AccLineage(Get(p.proc_acc, target_fqn, <<>>))

\* Python's order of the strings that occur in column references.
STRING_ORDER == <<"A", "B", "DbA", "DbB", "a", "b", "dbo">>

StrRank(x) == CHOOSE i \in 1..Len(STRING_ORDER) : STRING_ORDER[i] = x

\* A reference as the strings Python compares: namespace, schema, table, column.
RefKey(ref) == <<ref[1]>> \o ref[2] \o <<ref[3]>>

\* Tuple comparison: the first position that differs decides.
KeyLess(x, y) ==
    \E i \in 1..Len(x) :
       /\ StrRank(x[i]) < StrRank(y[i])
       /\ \A j \in 1..(i - 1) : x[j] = y[j]

RefLess(x, y) == KeyLess(RefKey(x), RefKey(y))

\* sorted(inputs)
RECURSIVE Sorted(_)
Sorted(inputs) ==
    IF inputs = {} THEN <<>>
    ELSE <<CHOOSE m \in inputs : \A y \in inputs \ {m} : RefLess(m, y)>>
           \o Sorted(inputs \ {CHOOSE m \in inputs : \A y \in inputs \ {m} : RefLess(m, y)})

\* The ColumnLineage list _proc_acc_finalize builds, inputs as lists.
MergedLineage(acc) ==
    [i \in 1..Len(acc) |->
       [output_column |-> acc[i][1],
        input_fields |-> Sorted(acc[i][2]),
        transformation_type |-> "IDENTITY",
        transformation_description |-> "merged from multiple branches"]]

\* set(...) of the input_fields list of a ColumnLineage
RefSet(input_fields) == {input_fields[i] : i \in 1..Len(input_fields)}

\* A col_lineage list as _proc_acc_add reads it: every reference of every
\* entry is added to the set of its column.
AsAdded(col_lineage) ==
    [i \in 1..Len(col_lineage) |->
       [output_column |-> col_lineage[i].output_column,
        input_fields |-> RefSet(col_lineage[i].input_fields)]]

(* ------------------------------------------------------------------ *)
(* parse_sql_file: the script route                                     *)
(* ------------------------------------------------------------------ *)
HintName == <<"object_hint">>

\* not obj.name.startswith("#") and "tempdb" not in obj.name
IsPersistentName(name) ==
    /\ name[1] \notin TempNames
    /\ \A i \in 1..Len(name) : name[i] # TEMP_DB

_strip_db(name) == IF Len(name) >= 2 THEN SubSeq(name, Len(name) - 1, Len(name)) ELSE name

BasicName(n) == IF Len(n) = 1 THEN <<"dbo">> \o n ELSE _strip_db(n)

\* string_fallbacks/deps: the names after FROM/JOIN/EXEC that are no local
\* target and no temp name, as schema.table.
_extract_basic_dependencies(sql) ==
    {BasicName(n) :
       n \in {x \in UNION {sql.stmts[i].from : i \in 1..Len(sql.stmts)} :
                /\ ~IsTempName(x)
                /\ \A i \in 1..Len(sql.stmts) : sql.stmts[i].target # x}}

Raise(c) == [c EXCEPT !.pc = "except"]

\* A CREATE statement of the script: its object is the main object so far.
AfterCreate(c, r) ==
    [p |-> r.p, reg |-> r.reg,
     c |-> [c EXCEPT !.last_persistent_output = r.obj,
                     !.all_inputs = @ \cup r.obj.dependencies]]

\* SELECT ... INTO and INSERT ... EXEC: an output, the main object so far when
\* it is persistent.  A handler that raised leaves for the except clause.
AfterOutput(c, r) ==
    IF r.obj = NoObj THEN [p |-> r.p, reg |-> r.reg, c |-> Raise(c)]
    ELSE [p |-> r.p, reg |-> r.reg,
          c |-> [c EXCEPT !.all_outputs = Append(@, r.obj),
                          !.last_persistent_output =
                              IF IsPersistentName(r.obj.name) THEN r.obj ELSE @,
                          !.all_inputs = @ \cup r.obj.dependencies]]

\* INSERT ... SELECT: as above, and its lineage goes to the accumulator.
AfterInsertSelect(c, r) ==
    [p |-> _proc_acc_add(r.p, r.obj.name, r.obj.lineage), reg |-> r.reg,
     c |-> [c EXCEPT !.all_outputs = Append(@, r.obj),
                     !.last_persistent_output =
                         IF IsPersistentName(r.obj.name) THEN r.obj ELSE @,
                     !.all_inputs = @ \cup r.obj.dependencies]]

\* A loose SELECT: its dependencies, temps expanded, join the inputs.
AfterSelect(p, reg, c, st) ==
    [p |-> p, reg |-> reg,
     c |-> [c EXCEPT !.all_inputs = @ \cup
              UNION {_expand_dependency_to_base_tables(p, d) :
                       d \in _extract_dependencies(p, st)}]]

\* One iteration of the loop over the statements of a script.
HandleStatement(p, reg, c, st) ==
    CASE st.kind = "create_view" -> AfterCreate(c, _parse_create_view(p, reg, st))
      [] st.kind = "select_into" -> AfterOutput(c, _parse_select_into(p, reg, st))
      [] st.kind = "select" -> AfterSelect(p, reg, c, st)
      [] st.kind = "insert_exec" -> AfterOutput(c, _parse_insert_exec(p, reg, st))
      [] st.kind = "insert_select" -> AfterInsertSelect(c, _parse_insert_select(p, reg, st))
      [] OTHER -> [p |-> p, reg |-> reg, c |-> c]

\* Preprocessing and sqlglot.parse of a script; a text without statements
\* returns at once.
ScriptBegin ==
    /\ call.pc = "script"
    /\ parser' = _preprocess_sql(parser, call.file)
    /\ \E preprocessed_sql \in {_cut_to_first_statement(call.file)} :
          IF ~preprocessed_sql.ast_ok
          THEN call' = Raise(call) /\ ret' = ret
          ELSE IF preprocessed_sql.stmts = <<>>
          THEN /\ call' = IdleCall
               /\ ret' = Returned(ObjectInfo(HintName, "script", None, <<>>, <<>>,
                                             _extract_basic_dependencies(preprocessed_sql),
                                             FALSE))
          ELSE /\ call' = [call EXCEPT !.pc = "loop", !.pos = 1, !.stmts = preprocessed_sql.stmts]
               /\ ret' = ret
    /\ UNCHANGED <<engine, registry, learned, parses>>

ScriptStatement ==
    /\ call.pc = "loop"
    /\ call.pos <= Len(call.stmts)
    /\ \E h \in {HandleStatement(parser, registry, call, call.stmts[call.pos])} :
          /\ parser' = h.p
          /\ registry' = h.reg
          /\ call' = IF h.c.pc = "except" THEN h.c ELSE [h.c EXCEPT !.pos = @ + 1]
    /\ UNCHANGED <<engine, learned, parses, ret>>

\* The inputs without the main object itself.
FinalInputs(all_inputs, lpo) ==
    IF lpo # NoObj /\ _strip_db(lpo.name) # <<>>
    THEN {d \in all_inputs : _strip_db(d) # _strip_db(lpo.name)}
    ELSE all_inputs

\* The main object is the last persistent output (its lineage replaced by the
\* accumulator's merged lineage when there is one), else the last output,
\* else a script object holding the inputs; NoObj where the code raises.
MainObject(p, c, all_inputs, merged) ==
    IF c.last_persistent_output # NoObj
    THEN [c.last_persistent_output EXCEPT !.dependencies = all_inputs,
                                          !.lineage = IF merged # <<>> THEN merged ELSE @]
    ELSE IF c.all_outputs # <<>>
    THEN [Last(c.all_outputs) EXCEPT !.dependencies = all_inputs]
    ELSE IF all_inputs # {}
    THEN WithReason(ObjectInfo(HintName, "script", ContextOrDefaultDb(p), <<>>, <<>>,
                               all_inputs, FALSE),
                    ScriptReason(p))
    ELSE NoObj

ScriptFinish ==
    /\ call.pc = "loop"
    /\ call.pos > Len(call.stmts)
    /\ \E main_object \in
          {MainObject(parser, call, FinalInputs(call.all_inputs, call.last_persistent_output),
                      _proc_acc_finalize(parser, call.last_persistent_output.name))} :
          IF main_object # NoObj
          THEN call' = IdleCall /\ ret' = Returned(main_object)
          ELSE call' = Raise(call) /\ ret' = ret
    /\ UNCHANGED <<engine, registry, learned, parses, parser>>

(* ------------------------------------------------------------------ *)
(* parse_sql_file: the exception handler and its string fallback        *)
(* ------------------------------------------------------------------ *)
PLACEHOLDER_COLUMNS == <<"output_col_1">>

\* The first statement the regex of the fallback matches (0: no match).
FirstStmt(sql, Matches(_)) ==
    IF \E i \in 1..Len(sql.stmts) : Matches(sql.stmts[i])
    THEN CHOOSE i \in 1..Len(sql.stmts) :
            Matches(sql.stmts[i]) /\ \A j \in 1..(i - 1) : ~Matches(sql.stmts[j])
    ELSE 0

\* INSERT INTO <persistent> (<columns>) SELECT
IsInsertTable(st) ==
    st.kind = "insert_select" /\ st.collist # <<>> /\ st.target[1] \notin TempNames

\* INSERT INTO <target> EXEC <procedure>
IsInsertExec(st) == st.kind = "insert_exec" /\ st.collist = <<>> /\ st.from # {}

\* INSERT INTO #<temp> EXEC <procedure>
IsTempInsertExec(st) == IsInsertExec(st) /\ Len(st.target) = 1 /\ st.target[1] \in TempNames

\* One entry per column of the INSERT list, from the procedure feeding the
\* temp table when the text has an INSERT INTO #temp EXEC.
FallbackTableLineage(p, reg, sql, columns, pm) ==
    [i \in 1..Len(columns) |->
       [output_column |-> columns[i],
        input_fields |->
           IF pm # 0
           THEN {InputRef(_ns_and_name(p, reg,
                                       _get_full_table_name(p, ProcOf(sql.stmts[pm])),
                                       "table"),
                          columns[i])}
           ELSE {}]]

FallbackTable(p, reg, sql, st, nn, all_dependencies) ==
    ObjectInfo(nn.nm, "table", nn.ns, st.collist,
               FallbackTableLineage(p, reg, sql, st.collist,
                                    FirstStmt(sql, IsTempInsertExec)),
               all_dependencies, TRUE)

FallbackExec(p, reg, st, nn, proc_full_name, all_dependencies) ==
    ObjectInfo(IF st.target[1] \in TempNames THEN <<TEMP_DB, "", st.target[1]>> ELSE nn.nm,
               IF st.target[1] \in TempNames THEN "temp_table" ELSE "table",
               IF st.target[1] \in TempNames THEN TEMP_DB ELSE nn.ns,
               PLACEHOLDER_COLUMNS,
               ExecLineage(_ns_and_name(p, reg, proc_full_name, "table"),
                           PLACEHOLDER_COLUMNS, FALSE),
               all_dependencies \cup {proc_full_name}, TRUE)

FallbackObject(p, reg, sql, t, e, all_dependencies) ==
    IF t # 0
    THEN FallbackTable(p, reg, sql, sql.stmts[t],
                       _ns_and_name(p, reg, sql.stmts[t].target, "table"), all_dependencies)
    ELSE IF e # 0
    THEN FallbackExec(p, reg, sql.stmts[e],
                      _ns_and_name(p, reg, _get_full_table_name(p, sql.stmts[e].target),
                                   "table"),
                      _get_full_table_name(p, ProcOf(sql.stmts[e])), all_dependencies)
    ELSE IF all_dependencies # {}
    THEN ObjectInfo(HintName, "script", ContextOrDefaultDb(p), PLACEHOLDER_COLUMNS,
                    <<>>, all_dependencies, TRUE)
    ELSE NoObj

FallbackResult(p, obj) ==
    [p |-> IF obj # NoObj THEN Register(p, obj.namespace, obj.name, obj.columns) ELSE p,
     obj |-> obj]

FallbackOn(p, reg, sql_pre) ==
    FallbackResult(p, FallbackObject(p, reg, sql_pre,
                                     FirstStmt(sql_pre, IsInsertTable),
                                     FirstStmt(sql_pre, IsInsertExec),
                                     _extract_basic_dependencies(sql_pre)))

\* Returns [p, obj]; obj is NoObj where the code returns None.
_try_insert_exec_fallback(p, reg, sql_content) ==
    FallbackOn(_preprocess_sql(p, sql_content), reg, _cut_to_first_statement(sql_content))

\* The object returned when every reading of the text failed.
UnknownObject(p) == ObjectInfo(HintName, "unknown", ContextOrDefaultDb(p), <<>>, <<>>, {}, FALSE)

ExceptionResultReraises(fallback_result) ==
    [p |-> fallback_result.p,
     ret |-> IF fallback_result.obj # NoObj THEN Returned(fallback_result.obj) ELSE Raised]

\* except Exception: the fallback's object if it yields one, else "unknown".
ExceptionResult(fallback_result) ==
    [p |-> fallback_result.p,
     ret |-> IF fallback_result.obj # NoObj THEN Returned(fallback_result.obj)
             ELSE Returned(UnknownObject(fallback_result.p))]

HandleException ==
    /\ call.pc = "except"
    /\ \E h \in {ExceptionResult(_try_insert_exec_fallback(parser, registry, call.file))} :
          parser' = h.p /\ ret' = h.ret
    /\ call' = IdleCall
    /\ UNCHANGED <<engine, registry, learned, parses>>

(* ------------------------------------------------------------------ *)
(* parse_sql_file: the function route                                   *)
(* ------------------------------------------------------------------ *)
FunctionNamespace(p, inferred_db) ==
    IF inferred_db # None THEN inferred_db
    ELSE IF p.default_database # None THEN p.default_database
    ELSE DEFAULT_DB

FunctionObject(p, sql_content, namespace, tvf, lc) ==
    ObjectInfo(IF sql_content.name # <<>> THEN sql_content.name ELSE HintName,
               "function", namespace,
               IF tvf THEN lc.columns ELSE <<>>,
               IF tvf THEN lc.lineage ELSE <<>>,
               IF tvf THEN _extract_dependencies(p, sql_content.stmts[1]) ELSE {},
               FALSE)

\* The text is read with regexes only: neither _preprocess_sql nor the USE
\* scan runs on this route.  A table-valued function has a RETURN SELECT,
\* which is the one statement of the file.
_parse_function_string(p, reg, sql_content) ==
    [obj |-> FunctionObject(p, sql_content,
                            FunctionNamespace(p, _infer_database_for_object(p, NoStatement,
                                                                             sql_content)),
                            sql_content.stmts # <<>>,
                            IF sql_content.stmts # <<>>
                            THEN _extract_column_lineage(p, reg, sql_content.stmts[1])
                            ELSE [columns |-> <<>>, lineage |-> <<>>]),
     reg |-> LearnCreated(p, reg, "function", _split_fqn(p, sql_content.name))]

ParseFunction ==
    /\ call.pc = "function"
    /\ \E r \in {_parse_function_string(parser, registry, call.file)} :
          /\ registry' = r.reg
          /\ ret' = Returned(r.obj)
          /\ parser' = IF call.file.stmts # <<>>
                        THEN Register(parser, r.obj.namespace, r.obj.name, r.obj.columns)
                        ELSE parser
    /\ call' = IdleCall
    /\ UNCHANGED <<engine, learned, parses>>

(* ------------------------------------------------------------------ *)
(* parse_sql_file: the procedure route (parser_modules/procedures.py)   *)
(* ------------------------------------------------------------------ *)
IsWrittenTemp(name) == name # <<>> /\ (name[1] \in TempNames \/ name[1] = TEMP_DB)

LastOf(S) == IF S = {} THEN 0 ELSE CHOOSE i \in S : \A j \in S : j <= i

FirstOf(S) == IF S = {} THEN 0 ELSE CHOOSE i \in S : \A j \in S : i <= j

\* string_fallbacks._extract_materialized_output_from_procedure_string: the
\* last SELECT ... INTO / INSERT INTO ... SELECT with a persistent target.
MaterializedTarget(sql) ==
    LastOf({i \in 1..Len(sql.stmts) :
              /\ sql.stmts[i].kind \in {"select_into", "insert_select"}
              /\ ~IsWrittenTemp(sql.stmts[i].target)})

InsertWithColumns(sql) ==
    FirstOf({i \in 1..Len(sql.stmts) :
               /\ sql.stmts[i].kind \in {"insert_select", "insert_exec"}
               /\ sql.stmts[i].collist # <<>>})

\* _extract_insert_into_columns: the first parenthesized INSERT column list.
_extract_insert_into_columns(sql) ==
    IF InsertWithColumns(sql) = 0 THEN <<>> ELSE sql.stmts[InsertWithColumns(sql)].collist

_normalize_table_name_for_output(table_name) ==
    IF Len(table_name) >= 3 THEN SubSeq(table_name, Len(table_name) - 1, Len(table_name))
    ELSE IF Len(table_name) = 2 THEN table_name
    ELSE <<"dbo">> \o table_name

\* string_fallbacks._extract_procedure_lineage_string: the last SELECT of the
\* body as the result set (0: the body has none).
LastSelect(sql) == LastOf({i \in 1..Len(sql.stmts) : sql.stmts[i].kind = "select"})

LearnProcedure(p, reg, sql) == LearnCreated(p, reg, "procedure", _split_fqn(p, sql.name))

\* database_from_use, when the text starts with USE
UseContext(p, db_from_use) ==
    IF db_from_use # None THEN [p EXCEPT !.current_database = db_from_use] ELSE p

\* USE at the start, then the preprocessing that opens the AST pre-scan.
ProcBegin ==
    /\ call.pc = "procedure"
    /\ parser' = _preprocess_sql(
                    UseContext(parser, _extract_database_from_use_statement(call.file)),
                    call.file)
    /\ call' = [call EXCEPT !.pc = IF call.file.ast_ok /\ call.file.stmts # <<>>
                                   THEN "prescan" ELSE "materialize",
                            !.pos = 1]
    /\ UNCHANGED <<engine, registry, learned, parses, ret>>

PrescanStatement(p, reg, st) ==
    CASE st.kind = "select_into" -> _parse_select_into(p, reg, st)
      [] st.kind = "insert_select" -> _parse_insert_select(p, reg, st)
      [] OTHER -> [p |-> p, reg |-> reg, obj |-> NoObj]

\* One statement of the pre-scan.
ProcPrescan ==
    /\ call.pc = "prescan"
    /\ \E r \in {PrescanStatement(parser, registry, call.file.stmts[call.pos])} :
          parser' = r.p /\ registry' = r.reg
    /\ call' = IF call.pos = Len(call.file.stmts)
               THEN [call EXCEPT !.pc = "materialize", !.pos = 1]
               ELSE [call EXCEPT !.pos = @ + 1]
    /\ UNCHANGED <<engine, learned, parses, ret>>

ResultSet(p, sql, namespace, k, lc) ==
    WithReason(ObjectInfo(IF sql.name # <<>> THEN sql.name ELSE HintName, "procedure",
                          namespace, lc.columns, lc.lineage,
                          IF k # 0 THEN _extract_dependencies(p, sql.stmts[k]) ELSE {}, FALSE),
               "ONLY_PROCEDURE_RESULTSET")

\* The object of a procedure that materializes nothing: its result set.
ResultSetObject(p, reg, sql) ==
    ResultSet(p, sql,
              FallbackOrDefault(_infer_database_for_object(p, NoStatement, sql)),
              LastSelect(sql),
              IF LastSelect(sql) # 0
              THEN _extract_column_lineage(p, reg, sql.stmts[LastSelect(sql)])
              ELSE [columns |-> <<>>, lineage |-> <<>>])

\* The schema registry's columns for the output, under its name or under its
\* name with the database in front.
KnownColumns(p, nn) ==
    IF SchemaGet(p, nn.ns, nn.nm) # <<>> THEN SchemaGet(p, nn.ns, nn.nm)
    ELSE SchemaGet(p, nn.ns, <<ContextOrDefaultDb(p)>> \o nn.nm)

Materialized(p, st, nn, lc, known, cols) ==
    ObjectInfo(nn.nm, "table", nn.ns,
               IF known # <<>> THEN known ELSE IF cols # <<>> THEN cols ELSE lc.columns,
               lc.lineage, _extract_dependencies(p, st), FALSE)

MaterializedNamed(p, reg, sql, st, nn) ==
    Materialized(p, st, nn, _extract_column_lineage(p, reg, st), KnownColumns(p, nn),
                 _extract_insert_into_columns(sql))

\* The materialized output with its lineage and dependencies, its schema
\* back-filled from the schema registry or the INSERT column list.
MaterializedObject(p, reg, sql) ==
    MaterializedNamed(p, reg, sql, sql.stmts[MaterializedTarget(sql)],
                      _ns_and_name(p, reg,
                                   _get_table_name(p, sql.stmts[MaterializedTarget(sql)].target),
                                   "table"))

ProcMaterialize ==
    /\ call.pc = "materialize"
    /\ IF MaterializedTarget(call.file) = 0
       THEN \E obj \in {ResultSetObject(parser, registry, call.file)} :
               /\ parser' = Register(parser, obj.namespace, obj.name, obj.columns)
               /\ registry' = LearnProcedure(parser, registry, call.file)
               /\ ret' = Returned(obj)
               /\ call' = IdleCall
       ELSE /\ parser' = _preprocess_sql(parser, call.file)
            /\ call' = [call EXCEPT !.pc = "segments", !.pos = 1,
                                    !.main = MaterializedObject(parser, registry, call.file)]
            /\ UNCHANGED <<registry, ret>>
    /\ UNCHANGED <<engine, learned, parses>>

\* The text of one statement, as the segment regexes cut it out of the body.
Segment(st) == [NoFile EXCEPT !.stmts = <<st>>]

\* The base names a string scan finds in a segment.
SegmentBases(st) ==
    {b \in _extract_basic_dependencies(Segment(st)) : ~IsTempName(b)}

\* When sqlglot fails on a segment: temp_sources[tkey] = bases, if any.
SegmentSources(p, reg, st, bases) ==
    [p |-> IF bases # {} THEN [p EXCEPT !.temp_sources = Put(@, st.target[1], bases)] ELSE p,
     reg |-> reg]

\* A SELECT ... INTO #tmp segment: re-parsed through _parse_select_into, or
\* scanned for base names when sqlglot fails on it.
SelectIntoSegment(p, reg, sql, st) ==
    IF sql.seg_ok THEN _parse_select_into(_preprocess_sql(p, Segment(st)), reg, st)
    ELSE SegmentSources(_preprocess_sql(p, Segment(st)), reg, st, SegmentBases(st))

\* An INSERT INTO #tmp ... SELECT segment.
InsertSegment(p, reg, sql, st) ==
    IF sql.seg_ok THEN _parse_insert_select(_preprocess_sql(p, Segment(st)), reg, st)
    ELSE SegmentSources(_preprocess_sql(p, Segment(st)), reg, st, SegmentBases(st))

IsTempSegment(st, kind) ==
    st.kind = kind /\ Len(st.target) = 1 /\ st.target[1] \in TempNames

\* Position pos of the two passes over the body: every SELECT ... INTO #tmp
\* first, then every INSERT INTO #tmp ... SELECT.
SegmentAt(p, reg, sql, pos, st) ==
    IF pos <= Len(sql.stmts) /\ IsTempSegment(st, "select_into")
    THEN SelectIntoSegment(p, reg, sql, st)
    ELSE IF pos > Len(sql.stmts) /\ IsTempSegment(st, "insert_select")
    THEN InsertSegment(p, reg, sql, st)
    ELSE [p |-> p, reg |-> reg]

ProcSegment ==
    /\ call.pc = "segments"
    /\ \E r \in {SegmentAt(parser, registry, call.file, call.pos,
                           call.file.stmts[IF call.pos <= Len(call.file.stmts)
                                           THEN call.pos
                                           ELSE call.pos - Len(call.file.stmts)])} :
          parser' = r.p /\ registry' = r.reg
    /\ call' = IF call.pos = Len(call.file.stmts) + Len(call.file.stmts)
               THEN [call EXCEPT !.pc = "finish"]
               ELSE [call EXCEPT !.pos = @ + 1]
    /\ UNCHANGED <<engine, learned, parses, ret>>

\* The last SELECT ... INTO #t segment of the body.
LastSegmentOf(sql, t) ==
    LastOf({i \in 1..Len(sql.stmts) :
              IsTempSegment(sql.stmts[i], "select_into") /\ sql.stmts[i].target[1] = t})

\* #temp -> base names, from the string scan of the SELECT ... INTO segments.
TempBaseMap(sql) ==
    [t \in {sql.stmts[i].target[1] :
              i \in {j \in 1..Len(sql.stmts) : IsTempSegment(sql.stmts[j], "select_into")}} |->
        SegmentBases(sql.stmts[LastSegmentOf(sql, t)])]

BasesOf(bases, base_map, tkey) == IF bases # {} THEN bases ELSE Get(base_map, tkey, {})

\* "Expand temp dependencies on the final output": the bases of every temp
\* dependency are added to the dependencies.
ExpandFinalDeps(p, sql, deps) ==
    deps \cup UNION {IF ~IsTempName(d) THEN {}
                     ELSE BasesOf(Get(p.temp_sources, Last(d), {}), TempBaseMap(sql), Last(d)) :
                       d \in deps}

\* "Last-resort": dependencies that show only temp tables give way to the
\* names of a basic scan of the whole text.
FinalDeps(deps_expanded, broad) ==
    IF (deps_expanded = {} \/ \A d \in deps_expanded : IsTempName(d)) /\ broad # {}
    THEN broad ELSE deps_expanded

ProcFinish ==
    /\ call.pc = "finish"
    /\ ret' = Returned([call.main EXCEPT
                          !.dependencies =
                              FinalDeps(ExpandFinalDeps(parser, call.file, @),
                                        _extract_basic_dependencies(call.file)),
                          !.name = _normalize_table_name_for_output(@)])
    /\ registry' = LearnProcedure(parser, registry, call.file)
    /\ call' = IdleCall
    /\ UNCHANGED <<engine, parser, learned, parses>>

(* ------------------------------------------------------------------ *)
(* The files the parser is run on                                       *)
(* ------------------------------------------------------------------ *)
Stmt(kind, target, cols, collist, from) ==
    [kind |-> kind, target |-> target, cols |-> cols, collist |-> collist, from |-> from]

File(header, route, ast_ok, seg_ok, name, cols, extra_refs, stmts) ==
    [header |-> header,
     n_table |-> IF route = "table" THEN 1 ELSE 0,
     n_function |-> IF route = "function" THEN 1 ELSE 0,
     n_procedure |-> IF route = "procedure" THEN 1 ELSE 0,
     ast_ok |-> ast_ok, seg_ok |-> seg_ok, name |-> name, cols |-> cols,
     extra_refs |-> extra_refs, stmts |-> stmts]

\* SELECT a INTO #x FROM dbo.A
SelectIntoX == Stmt("select_into", <<"#x">>, <<"a">>, <<>>, {<<"dbo", "A">>})

\* SELECT a INTO #y FROM #x
SelectIntoYFromX == Stmt("select_into", <<"#y">>, <<"a">>, <<>>, {<<"#x">>})

\* INSERT INTO dbo.T SELECT a FROM #x
InsertTFromX == Stmt("insert_select", <<"dbo", "T">>, <<"a">>, <<>>, {<<"#x">>})

\* INSERT INTO dbo.V (a) SELECT a FROM dbo.B
InsertV == Stmt("insert_select", <<"dbo", "V">>, <<"a">>, <<"a">>, {<<"dbo", "B">>})

\* CREATE VIEW dbo.V AS SELECT a, b FROM dbo.A
CreateViewV == Stmt("create_view", <<"dbo", "V">>, <<"a", "b">>, <<>>, {<<"dbo", "A">>})

\* SELECT a FROM #x
SelectFromX == Stmt("select", <<>>, <<"a">>, <<>>, {<<"#x">>})

\* INSERT INTO #x EXEC dbo.p
InsertXExec == Stmt("insert_exec", <<"#x">>, <<>>, <<>>, {<<"dbo", "p">>})

\* INSERT INTO #x SELECT b FROM dbo.B
InsertXFromB == Stmt("insert_select", <<"#x">>, <<"b">>, <<>>, {<<"dbo", "B">>})

BodyStmts == {SelectIntoX, SelectIntoYFromX, InsertTFromX, InsertV, CreateViewV,
              SelectFromX, InsertXExec, InsertXFromB}

BodySeqs == UNION {[1..n -> BodyStmts] : n \in 1..MaxStmts}

\* Scripts and procedure bodies of up to MaxStmts statements.
BodyFiles ==
    {File(<<>>, "script", ok, TRUE, <<>>, <<>>, <<>>, ss) : ok \in BOOLEAN, ss \in BodySeqs}
      \cup {File(<<>>, "procedure", ok, seg, <<"dbo", "P">>, <<>>, <<>>, ss) :
              ok \in BOOLEAN, seg \in BOOLEAN, ss \in BodySeqs}

\* CREATE VIEW dbo.Ref AS SELECT a FROM dbo.A
CreateViewRef == Stmt("create_view", <<"dbo", "Ref">>, <<"a">>, <<>>, {<<"dbo", "A">>})

\* INSERT INTO dbo.T SELECT a FROM dbo.Ref
InsertTFromRef == Stmt("insert_select", <<"dbo", "T">>, <<"a">>, <<>>, {<<"dbo", "Ref">>})

\* SELECT a INTO #y FROM DbB.dbo.A
SelectIntoYFromDbB == Stmt("select_into", <<"#y">>, <<"a">>, <<>>, {<<"DbB", "dbo", "A">>})

\* INSERT INTO dbo.T EXEC, with nothing the handler can read after EXEC
InsertExecBroken == Stmt("insert_exec", <<"dbo", "T">>, <<>>, <<>>, {})

\* PRINT 'x'
OtherStmt == Stmt("other", <<>>, <<>>, <<>>, {})

Headers == {<<>>, << <<"USE", "DbA">> >>, << <<"SET">>, <<"--">>, <<"USE", "DbB">> >>,
            << <<"CREATE">>, <<"USE", "DbB">> >>}

Bodies ==
    {File(<<>>, "table", ok, TRUE, <<"dbo", "Ref">>, <<"a">>, refs, <<>>) :
       ok \in BOOLEAN, refs \in {<<>>, <<"DbB">>}}
      \cup {File(<<>>, "table", TRUE, TRUE, <<"DbA", "dbo", "Ref">>, <<"a">>, <<>>, <<>>),
            File(<<>>, "function", TRUE, TRUE, <<"dbo", "Ref">>, <<>>, <<>>, <<>>),
            File(<<>>, "procedure", TRUE, TRUE, <<"dbo", "P">>, <<>>, <<>>,
                 <<SelectIntoX, InsertTFromX>>),
            File(<<>>, "procedure", TRUE, TRUE, <<"dbo", "P">>, <<>>, <<>>,
                 << Stmt("select", <<>>, <<"a">>, <<>>, {<<"dbo", "Ref">>}) >>),
            File(<<>>, "script", TRUE, TRUE, <<>>, <<>>, <<>>, <<CreateViewRef>>),
            File(<<>>, "script", TRUE, TRUE, <<>>, <<>>, <<>>, <<InsertTFromRef>>),
            File(<<>>, "script", TRUE, TRUE, <<>>, <<>>, <<>>, <<SelectIntoYFromDbB>>),
            File(<<>>, "script", TRUE, TRUE, <<>>, <<>>, <<>>, <<InsertExecBroken>>),
            File(<<>>, "script", TRUE, TRUE, <<>>, <<>>, <<>>, <<OtherStmt>>),
            File(<<>>, "script", TRUE, TRUE, <<>>, <<>>, <<>>, <<>>),
            File(<<>>, "script", FALSE, TRUE, <<>>, <<>>, <<>>, <<InsertTFromRef>>),
            File(<<>>, "script", FALSE, TRUE, <<>>, <<>>, <<>>, <<OtherStmt>>)}

\* Files of every route, with and without a leading USE.
ParserFiles == {[b EXCEPT !.header = h] : h \in Headers, b \in Bodies}

\* The parsers the engine and the tests build: with or without a default
\* database, with or without a registry.
ParserConfigs == {<<None, TRUE>>, <<"DbB", TRUE>>, <<"DbB", FALSE>>}

ParserInit ==
    /\ registry = EmptyRegistry
    /\ learned = 0
    /\ \E cfg \in ParserConfigs : parser = NewParser(cfg[1], cfg[2])
    /\ call = IdleCall
    /\ ret = NoReturn
    /\ parses = 0
    /\ engine = IdleEngine

ParseFile ==
    /\ call.pc = "idle"
    /\ parses < MaxParses
    /\ \E f \in ParserFiles : parse_sql_file(f)

\* A first file on a fresh parser.
ParseBodyFile == parses = 0 /\ \E f \in BodyFiles : parse_sql_file(f)

NextParser ==
    \/ ParseFile
    \/ ParseCreateTable
    \/ ParseFunction
    \/ ScriptBegin
    \/ ScriptStatement
    \/ ScriptFinish
    \/ ProcBegin
    \/ ProcPrescan
    \/ ProcMaterialize
    \/ ProcSegment
    \/ ProcFinish
    \/ HandleException

Spec == ParserInit /\ [][NextParser]_vars

NextBody ==
    \/ ParseBodyFile
    \/ ScriptBegin
    \/ ScriptStatement
    \/ ScriptFinish
    \/ ProcBegin
    \/ ProcPrescan
    \/ ProcMaterialize
    \/ ProcSegment
    \/ ProcFinish
    \/ HandleException

SpecBody == ParserInit /\ [][NextBody]_vars

(* ------------------------------------------------------------------ *)
(* Specification of the registry alone: any sequence of learn_* calls   *)
(* ------------------------------------------------------------------ *)
(* ------------------------------------------------------------------ *)
(* run_extract twice in one process, on one adapter and its parser      *)
(* ------------------------------------------------------------------ *)
MaxCorpus == 2

\* CREATE VIEW dbo.V AS SELECT * FROM dbo.Ref
CreateViewStar == Stmt("create_view", <<"dbo", "V">>, <<"*">>, <<>>, {<<"dbo", "Ref">>})

CorpusFiles ==
    ParserFiles \cup {File(<<>>, "script", TRUE, TRUE, <<>>, <<>>, <<>>, <<CreateViewStar>>)}

\* The files of sql_dir in the order of the loop.
Corpora == UNION {[1..n -> CorpusFiles] : n \in 1..MaxCorpus}

\* The file of the k-th parse_sql_file call: run_extract calls it for
\* obj_info and, through adapter.extract_lineage, once more for the payload,
\* file after file, and the second run does the same again.
FileOfCall(corpus, k) == corpus[(((k - 1) % (2 * Len(corpus))) \div 2) + 1]

TwiceInit ==
    /\ registry = EmptyRegistry
    /\ learned = 0
    /\ \E cfg \in ParserConfigs : parser = NewParser(cfg[1], cfg[2])
    /\ call = IdleCall
    /\ ret = NoReturn
    /\ parses = 0
    /\ \E corpus \in Corpora : engine = [pc |-> "twice", corpus |-> corpus, results |-> <<>>]

\* The next parse_sql_file call of the two runs.
ExtractParse ==
    /\ parses = Len(engine.results)
    /\ parses < 4 * Len(engine.corpus)
    /\ parse_sql_file(FileOfCall(engine.corpus, parses + 1))

\* The call is back: its object goes to parsed_objects or to the payload.
ExtractResult ==
    /\ call.pc = "idle"
    /\ parses = Len(engine.results) + 1
    /\ engine' = [engine EXCEPT !.results = Append(@, ret)]
    /\ UNCHANGED <<registry, learned, parser, call, ret, parses>>

NextTwice ==
    \/ ExtractParse
    \/ ExtractResult
    \/ ParseCreateTable
    \/ ParseFunction
    \/ ScriptBegin
    \/ ScriptStatement
    \/ ScriptFinish
    \/ ProcBegin
    \/ ProcPrescan
    \/ ProcMaterialize
    \/ ProcSegment
    \/ ProcFinish
    \/ HandleException

SpecTwice == TwiceInit /\ [][NextTwice]_vars

(* ------------------------------------------------------------------ *)
(* _ns_and_name on names that start with the kind of the object         *)
(* ------------------------------------------------------------------ *)
\* The first segment of a file stem such as Table.dbo.T, in the letter cases
\* met.
PrefixWords == {"View", "view", "VIEW", "Table", "table", "TABLE",
                "StoredProcedure", "storedprocedure", "Function", "function", "FUNCTION"}

\* dbo.T and DbA.dbo.T behind the prefix.
PrefixedNames ==
    {<<w>> \o n : w \in PrefixWords, n \in {<<"dbo", "T">>, <<"DbA", "dbo", "T">>}}

\* Parsers with and without USE database, default database, registry and
\* dbt mode.
ResolverParsers ==
    {[NewParser(d, r) EXCEPT !.current_database = u, !.dbt_mode = m] :
       d \in {None, "DbB"}, r \in BOOLEAN, u \in {None, "DbA"}, m \in BOOLEAN}

ResolverInit ==
    /\ registry \in {EmptyRegistry, learn_from_create(EmptyRegistry, "table", <<"dbo", "T">>, "DbB")}
    /\ learned = 0
    /\ parser \in ResolverParsers
    /\ call = IdleCall
    /\ ret = NoReturn
    /\ parses = 0
    /\ engine = IdleEngine

\* One call of the resolver.
NsAndName ==
    /\ call.pc = "idle"
    /\ \E table_name \in PrefixedNames, obj_type_hint \in ObjTypes :
          /\ call' = [pc |-> "resolved", table_name |-> table_name,
                      obj_type_hint |-> obj_type_hint]
          /\ ret' = [kind |-> "ns", obj |-> NoObj,
                     nn |-> _ns_and_name(parser, registry, table_name, obj_type_hint)]
    /\ UNCHANGED <<registry, learned, parser, parses, engine>>

NextResolver == NsAndName

SpecResolver == ResolverInit /\ [][NextResolver]_vars

(* ------------------------------------------------------------------ *)
(* _handle_star_expansion: the projection list of a SELECT with a star  *)
(* ------------------------------------------------------------------ *)
MaxProj == 3

\* A projection: its text, whether it is a star, the alias in front of the
\* star or column, the column it names and its AS alias (None: absent).
Proj(sql, star, table, column, alias) ==
    [sql |-> sql, star |-> star, table |-> table, column |-> column, alias |-> alias]

Projections ==
    {Proj("*", TRUE, None, None, None),
     Proj("x.*", TRUE, "x", None, None),
     Proj("y.*", TRUE, "y", None, None),
     Proj("x.a", FALSE, "x", "a", None),
     Proj("y.c", FALSE, "y", "c", None),
     Proj("b", FALSE, None, "b", None),
     Proj("1 AS b", FALSE, None, None, "b"),
     Proj("1", FALSE, None, None, None)}

\* FROM dbo.A x [JOIN dbo.B y], in either order.
TableA == [name |-> <<"dbo", "A">>, alias |-> "x"]

TableB == [name |-> <<"dbo", "B">>, alias |-> "y"]

FromLists == {<<TableA>>, <<TableA, TableB>>, <<TableB, TableA>>}

\* The SELECT statements star expansion is called for.
StarSelects ==
    {s \in [expressions : UNION {[1..n -> Projections] : n \in 1..MaxProj},
            tables : FromLists] : _has_star_expansion(s)}

\* dbo.A(a, b) and dbo.B(b, c) are known to the schema registry.
StarParser ==
    Register(Register(NewParser(None, TRUE), DEFAULT_DB, <<"dbo", "A">>, <<"a", "b">>),
             DEFAULT_DB, <<"dbo", "B">>, <<"b", "c">>)

StarInit ==
    /\ registry = EmptyRegistry
    /\ learned = 0
    /\ parser = StarParser
    /\ call = IdleCall
    /\ ret = NoReturn
    /\ parses = 0
    /\ engine = IdleEngine

\* _extract_column_lineage on a SELECT with a star.
HandleStarExpansion ==
    /\ call.pc = "idle"
    /\ \E select_stmt \in StarSelects :
          /\ call' = [pc |-> "star", select_stmt |-> select_stmt]
          /\ ret' = [kind |-> "columns", obj |-> NoObj,
                     lineage |-> _handle_star_expansion(parser, registry, select_stmt).lineage,
                     output_columns |->
                        _handle_star_expansion(parser, registry, select_stmt).output_columns]
    /\ UNCHANGED <<registry, learned, parser, parses, engine>>

NextStar == HandleStarExpansion

SpecStar == StarInit /\ [][NextStar]_vars

(* ------------------------------------------------------------------ *)
(* The procedure accumulator on its own                                 *)
(* ------------------------------------------------------------------ *)
MaxInputs == 2

AccTarget == <<"dbo", "T">>

AccRefs == {<<"DbB", <<"dbo", "A">>, "a">>, <<"DbA", <<"dbo", "B">>, "a">>,
            <<"DbA", <<"dbo", "A">>, "b">>}

\* The input lists of a ColumnLineage: repeats and any order.
AccInputs == UNION {[1..n -> AccRefs] : n \in 0..MaxInputs}

AccEntries == {[output_column |-> c, input_fields |-> l] : c \in {"a", "b"}, l \in AccInputs}

\* col_lineage lists of one entry, or of two entries of at most one input each.
AccLineages ==
    {<<e>> : e \in AccEntries}
       \cup {<<e, f>> : e, f \in {x \in AccEntries : Len(x.input_fields) <= 1}}

\* What has been added so far, whatever the order and however often: the
\* output columns, and the <<column, reference>> pairs.
Added(seen, col_lineage) ==
    [columns |-> seen.columns \cup {col_lineage[i].output_column : i \in 1..Len(col_lineage)},
     triples |-> seen.triples \cup
                    UNION {{<<col_lineage[i].output_column, col_lineage[i].input_fields[k]>> :
                              k \in 1..Len(col_lineage[i].input_fields)} :
                           i \in 1..Len(col_lineage)}]

AccInit ==
    /\ registry = EmptyRegistry
    /\ learned = 0
    /\ parser = NewParser(None, TRUE)
    /\ call = [pc |-> "acc", columns |-> {}, triples |-> {}]
    /\ ret = NoReturn
    /\ parses = 0
    /\ engine = IdleEngine

ProcAccAdd ==
    /\ \E col_lineage \in AccLineages :
          /\ parser' = _proc_acc_add(parser, AccTarget, AsAdded(col_lineage))
          /\ call' = [pc |-> "acc"] @@ Added(call, col_lineage)
    /\ ret' = NoReturn
    /\ UNCHANGED <<registry, learned, parses, engine>>

ProcAccFinalize ==
    /\ ret.kind = "none"
    /\ ret' = [kind |-> "lineage", obj |-> NoObj,
               lineage |-> MergedLineage(Get(parser.proc_acc, AccTarget, <<>>))]
    /\ UNCHANGED <<registry, learned, parser, call, parses, engine>>

NextAcc == ProcAccAdd \/ ProcAccFinalize

SpecAcc == AccInit /\ [][NextAcc]_vars

RegistryInit ==
    /\ registry = EmptyRegistry
    /\ learned = 0
    /\ parser = NewParser(None, TRUE)
    /\ call = IdleCall
    /\ ret = NoReturn
    /\ parses = 0
    /\ engine = IdleEngine

LearnCreate ==
    /\ learned < MaxLearn
    /\ \E t \in ObjTypes \cup {"Table"}, s \in SchemaTables \cup {<<>>}, d \in DBs \cup {None} :
          registry' = learn_from_create(registry, t, s, d)
    /\ learned' = learned + 1
    /\ UNCHANGED <<engine, parser, call, ret, parses>>

LearnTargets ==
    /\ learned < MaxLearn
    /\ \E s \in SchemaTables \cup {<<>>}, d \in DBs \cup {None} :
          registry' = learn_from_targets(registry, s, d)
    /\ learned' = learned + 1
    /\ UNCHANGED <<engine, parser, call, ret, parses>>

LearnReferences ==
    /\ learned < MaxLearn
    /\ \E s \in SchemaTables \cup {<<>>}, d \in DBs \cup {None} :
          registry' = learn_from_references(registry, s, d)
    /\ learned' = learned + 1
    /\ UNCHANGED <<engine, parser, call, ret, parses>>

NextRegistry == LearnCreate \/ LearnTargets \/ LearnReferences

SpecRegistry == RegistryInit /\ [][NextRegistry]_vars

\* ---- the learning calls, counted by their arguments as written ----
LearnNames == SchemaTables \cup {<<>>}

LearnDbs == DBs \cup {None, ""}

NoCalls == [a \in LearnNames \X LearnDbs |-> 0]

LearnInit ==
    /\ registry = EmptyRegistry
    /\ learned = 0
    /\ parser = NewParser(None, TRUE)
    /\ call = [pc |-> "learn", targets |-> NoCalls, references |-> NoCalls]
    /\ ret = NoReturn
    /\ parses = 0
    /\ engine = IdleEngine

LearnFromCreate ==
    /\ learned < MaxLearn
    /\ \E t \in {"table", "View"}, s \in LearnNames, d \in {"DbA", None} :
          registry' = learn_from_create(registry, t, s, d)
    /\ learned' = learned + 1
    /\ UNCHANGED <<engine, parser, call, ret, parses>>

LearnFromTargets ==
    /\ learned < MaxLearn
    /\ \E s \in LearnNames, d \in LearnDbs :
          /\ registry' = learn_from_targets(registry, s, d)
          /\ call' = [call EXCEPT !.targets[<<s, d>>] = @ + 1]
    /\ learned' = learned + 1
    /\ UNCHANGED <<engine, parser, ret, parses>>

LearnFromReferences ==
    /\ learned < MaxLearn
    /\ \E s \in LearnNames, d \in LearnDbs :
          /\ registry' = learn_from_references(registry, s, d)
          /\ call' = [call EXCEPT !.references[<<s, d>>] = @ + 1]
    /\ learned' = learned + 1
    /\ UNCHANGED <<engine, parser, ret, parses>>

NextLearn == LearnFromCreate \/ LearnFromTargets \/ LearnFromReferences

SpecLearn == LearnInit /\ [][NextLearn]_vars

(* ------------------------------------------------------------------ *)
(* Engine.run_extract: the loop over the selected files                 *)
(* ------------------------------------------------------------------ *)
MaxFiles == 3

Stems == {"a", "b"}

\* One selected file and what happens when the loop body runs on it:
\*   fails: the step that raises ("none": no step does)
\*     "read"   sql_path.read_text
\*     "parse"  parser.parse_sql_file
\*     "emit"   adapter.extract_lineage or json.loads
\*     "write"  target.write_text
\*     "facets" the look into the payload after the write
\*   ignored: the name of its object matches an ignore pattern
\*   bare: its object is "unknown" or its payload has neither schema fields
\*         nor column lineage
SqlFile(stem, fails, ignored, bare) ==
    [stem |-> stem, fails |-> fails, ignored |-> ignored, bare |-> bare]

SqlFiles ==
    {SqlFile(st, f, FALSE, FALSE) :
       st \in Stems, f \in {"none", "read", "parse", "emit", "write", "facets"}}
      \cup {SqlFile(st, "none", TRUE, FALSE) : st \in Stems}
      \cup {SqlFile(st, "none", FALSE, TRUE) : st \in Stems}

FileLists == UNION {[1..n -> SqlFiles] : n \in 1..MaxFiles}

\* except Exception: warnings += 1, and the loop goes on.
FileFailedStops(e, parsed) ==
    [e EXCEPT !.warnings = @ + 1, !.parsed_objects = @ + parsed, !.pc = "done"]

FileFailed(e, parsed) ==
    [e EXCEPT !.warnings = @ + 1, !.parsed_objects = @ + parsed, !.pos = @ + 1]

\* The write and what follows it: the row, the warning heuristic.
FileWritten(e, f) ==
    [e EXCEPT !.parsed_objects = @ + 1,
              !.disk = @ \cup {f.stem},
              !.outputs = Append(@, <<e.pos, f.stem>>),
              !.warnings = IF f.bare \/ f.fails = "facets" THEN @ + 1 ELSE @,
              !.pos = @ + 1]

\* The corpus: a.sql creates a view that reads the table b.sql creates.
DependsOn(stem) == IF stem = "a" THEN {"b"} ELSE {}

\* ObjectGraph.topological_sort over the objects of the files, added in the
\* order given: a node is appended once its dependencies in the graph are.
RECURSIVE visit(_, _, _)
visit(objects, node, st) ==
    IF node \in st.temp_visited \/ node \in st.visited THEN st
    ELSE IF \E dep \in DependsOn(node) :
               /\ \E i \in 1..Len(objects) : objects[i] = dep
               /\ dep \notin st.visited /\ dep \notin st.temp_visited
    THEN visit(objects, node,
               [visit(objects,
                      CHOOSE dep \in DependsOn(node) :
                         /\ \E i \in 1..Len(objects) : objects[i] = dep
                         /\ dep \notin st.visited /\ dep \notin st.temp_visited,
                      [st EXCEPT !.temp_visited = @ \cup {node}])
                  EXCEPT !.temp_visited = @ \ {node}])
    ELSE [st EXCEPT !.visited = @ \cup {node}, !.result = Append(@, node)]

RECURSIVE VisitAll(_, _, _)
VisitAll(objects, rest, st) ==
    IF rest = <<>> THEN st
    ELSE VisitAll(objects, Tail(rest), visit(objects, Head(rest), st))

topological_sort(objects) ==
    VisitAll(objects, objects, [visited |-> {}, temp_visited |-> {}, result |-> <<>>]).result

\* sorted(sql_root.rglob("*.sql")) for files of one directory.
PathOrdered(files) ==
    \A i \in 1..(Len(files) - 1) : StrRank(files[i].stem) < StrRank(files[i + 1].stem)

\* The stems of the files the loop has been through, in the order of the loop.
ProcessedOrder(e) == [i \in 1..(e.pos - 1) |-> e.sql_files[i].stem]

\* The body of the loop for the file at pos.
ProcessedFile(e, f) ==
    IF f.fails \in {"read", "parse"} THEN FileFailed(e, 0)
    ELSE IF f.ignored THEN [e EXCEPT !.parsed_objects = @ + 1, !.pos = @ + 1]
    ELSE IF f.fails = "emit" THEN FileFailed(e, 1)
    ELSE FileWritten(e, f)

run_extract(files) ==
    /\ engine.pc = "idle"
    /\ engine' = [IdleEngine EXCEPT !.pc = "loop", !.sql_files = files, !.pos = 1,
                                    !._column_graph = engine._column_graph]
    /\ UNCHANGED <<registry, learned, parser, call, ret, parses>>

RunExtract == engine.pc = "idle" /\ \E files \in FileLists : run_extract(files)

ProcessFile ==
    /\ engine.pc = "loop"
    /\ engine.pos <= Len(engine.sql_files)
    /\ engine.sql_files[engine.pos].fails # "write"
    /\ engine' = ProcessedFile(engine, engine.sql_files[engine.pos])
    /\ UNCHANGED <<registry, learned, parser, call, ret, parses>>

\* write_text raises: the file it opened may or may not be left in out_dir.
WriteFails ==
    /\ engine.pc = "loop"
    /\ engine.pos <= Len(engine.sql_files)
    /\ engine.sql_files[engine.pos].fails = "write"
    /\ \E left \in SUBSET {engine.sql_files[engine.pos].stem} :
          engine' = [FileFailed(engine, 1) EXCEPT !.disk = @ \cup left]
    /\ UNCHANGED <<registry, learned, parser, call, ret, parses>>

\* if parsed_objects: the column graph of this run replaces the engine's.
BuildGraph(e, run) ==
    IF e.parsed_objects > 0 THEN [run |-> run, objects |-> e.parsed_objects]
    ELSE e._column_graph

\* The loop is over: the column graph is built, and run_extract returns the
\* rows and the warning count.
ReturnRows ==
    /\ engine.pc = "loop"
    /\ engine.pos > Len(engine.sql_files)
    /\ engine' = [engine EXCEPT !.pc = "done", !._column_graph = BuildGraph(engine, parses + 1)]
    /\ UNCHANGED <<registry, learned, parser, call, ret, parses>>

EngineInit ==
    /\ registry = EmptyRegistry
    /\ learned = 0
    /\ parser = NewParser(None, TRUE)
    /\ call = IdleCall
    /\ ret = NoReturn
    /\ parses = 0
    /\ engine = IdleEngine

NextEngine ==
    \/ RunExtract
    \/ ProcessFile
    \/ WriteFails
    \/ ReturnRows

SpecEngine == EngineInit /\ [][NextEngine]_vars

\* ---- SchemaRegistry: register and get on the strings themselves ----
\* A namespace and a name are strings, kept as their dot-separated segments:
\* the namespace mssql://localhost/DbA is <<"DbA">> here.
RegNamespaces == {<<"DbA">>, <<"dba">>, <<"DbA", "dbo">>}

RegNames == {<<"dbo", "T">>, <<"T">>, <<"t">>}

RegSchemas == {"schema1", "schema2"}

\* f"{namespace}.{name}".lower()
SchemaKey(namespace, name) == LowerName(namespace \o name)

\* self._schemas[key] = schema
register(schemas, schema) == Put(schemas, SchemaKey(schema.namespace, schema.name), schema)

\* None, where a schema is expected.
NotFound == [namespace |-> <<>>, name |-> <<>>, columns |-> None]

\* self._schemas.get(key)
get(schemas, namespace, name) == Get(schemas, SchemaKey(namespace, name), NotFound)

SchemaRegistryInit ==
    /\ registry = EmptyRegistry
    /\ learned = 0
    /\ parser = NewParser(None, TRUE)
    /\ call = [pc |-> "registry", schemas |-> EmptyMap, registered |-> <<>>]
    /\ ret = NoReturn
    /\ parses = 0
    /\ engine = IdleEngine

RegisterSchema ==
    /\ call.pc = "registry"
    /\ learned < MaxLearn
    /\ \E schema \in [namespace : RegNamespaces, name : RegNames, columns : RegSchemas] :
          call' = [call EXCEPT !.schemas = register(@, schema),
                               !.registered = Append(@, schema)]
    /\ learned' = learned + 1
    /\ UNCHANGED <<registry, parser, ret, parses, engine>>

NextSchemaRegistry == RegisterSchema

SpecSchemaRegistry == SchemaRegistryInit /\ [][NextSchemaRegistry]_vars

\* ---- TableSchema columns with their ordinals ----
MaxCols == 2

ColumnSchema(name, ordinal) == [name |-> name, ordinal |-> ordinal]

\* A column of a catalog table: its name and its keys; the value of the
\* ordinal key when the column has one.
CatalogColumn ==
    [name : {"a", "b"}, keys : {{"name", "ordinal"}}, ordinal : {0, 1}]
      \cup [name : {"a", "b"}, keys : {{"name"}}, ordinal : {0}]

CatalogColumns == UNION {[1..n -> CatalogColumn] : n \in 1..MaxCols}

\* ordinal=int(c.get("ordinal", 0)) for every column of the catalog table
CatalogSchema(cols_raw) ==
    [i \in 1..Len(cols_raw) |->
       ColumnSchema(cols_raw[i].name,
                    IF "ordinal" \in cols_raw[i].keys THEN cols_raw[i].ordinal ELSE 0)]

\* The expressions between the parentheses of CREATE TABLE: column
\* definitions and table constraints.
TableExpressions ==
    UNION {[1..n -> {[kind |-> "ColumnDef", name |-> "a"], [kind |-> "ColumnDef", name |-> "b"],
                     [kind |-> "Constraint", name |-> "pk"]}] : n \in 1..(MaxCols + 1)}

RECURSIVE ColumnDefs(_, _)
\* for i, column_def in enumerate(expressions): the ColumnDef ones, ordinal=i
ColumnDefs(expressions, i) ==
    IF i >= Len(expressions) THEN <<>>
    ELSE (IF expressions[i + 1].kind = "ColumnDef"
          THEN <<ColumnSchema(expressions[i + 1].name, i)>> ELSE <<>>)
         \o ColumnDefs(expressions, i + 1)

\* ordinal = 0 at the start, ordinal += 1 after every column appended
Numbered(names) == [i \in 1..Len(names) |-> ColumnSchema(names[i], i - 1)]

\* for i, c in enumerate(cols_arg): ordinal=i
InsertColumnLists == UNION {[1..n -> {"a", "b"}] : n \in 1..MaxCols}

NoSchema == [kind |-> "none", origin |-> "none", columns |-> <<>>]

Schema(origin, columns) == [kind |-> "schema", origin |-> origin, columns |-> columns]

OrdinalInit ==
    /\ registry = EmptyRegistry
    /\ learned = 0
    /\ parser = StarParser
    /\ call = IdleCall
    /\ ret = NoSchema
    /\ parses = 0
    /\ engine = IdleEngine

\* run_extract, step 1: a table of the catalog is registered.
CatalogSeed ==
    /\ call.pc = "idle"
    /\ \E cols_raw \in CatalogColumns : ret' = Schema("catalog", CatalogSchema(cols_raw))
    /\ call' = [call EXCEPT !.pc = "schema"]
    /\ UNCHANGED <<registry, learned, parser, parses, engine>>

\* _parse_create_table: the columns of the schema it registers.
CreateTableColumns ==
    /\ call.pc = "idle"
    /\ \E expressions \in TableExpressions :
          ret' = Schema("create_table", ColumnDefs(expressions, 0))
    /\ call' = [call EXCEPT !.pc = "schema"]
    /\ UNCHANGED <<registry, learned, parser, parses, engine>>

\* _handle_star_expansion: the output columns.
StarExpansionColumns ==
    /\ call.pc = "idle"
    /\ \E select_stmt \in StarSelects :
          ret' = Schema("star",
                        Numbered(_handle_star_expansion(parser, registry,
                                                       select_stmt).output_columns))
    /\ call' = [call EXCEPT !.pc = "schema"]
    /\ UNCHANGED <<registry, learned, parser, parses, engine>>

\* _parse_insert_exec: the target column list of the INSERT.
InsertListColumns ==
    /\ call.pc = "idle"
    /\ \E cols_arg \in InsertColumnLists : ret' = Schema("insert", Numbered(cols_arg))
    /\ call' = [call EXCEPT !.pc = "schema"]
    /\ UNCHANGED <<registry, learned, parser, parses, engine>>

NextOrdinal ==
    \/ CatalogSeed
    \/ CreateTableColumns
    \/ StarExpansionColumns
    \/ InsertListColumns

SpecOrdinal == OrdinalInit /\ [][NextOrdinal]_vars

\* ---- ObjectDbRegistry.save: the file at path ----
RECURSIVE Items(_, _)
\* The items of a dict as the tokens of its JSON object.
Items(part, m) ==
    IF DOMAIN m = {} THEN <<>>
    ELSE LET k == CHOOSE x \in DOMAIN m : TRUE
         IN <<[part |-> part, key |-> k, value |-> <<m[k]>>]>>
              \o Items(part, [x \in (DOMAIN m) \ {k} |-> m[x]])

Brace(b) == [part |-> b, key |-> <<>>, value |-> <<>>]

\* json.dumps({"hard": ..., "soft": ...}) as a sequence of tokens.
dumps(reg) ==
    <<Brace("{")>> \o Items("hard", reg.hard) \o Items("soft", reg.soft) \o <<Brace("}")>>

\* No file at path.
NoContent == <<Brace("absent")>>

SaveInit ==
    /\ registry = EmptyRegistry
    /\ learned = 0
    /\ parser = NewParser(None, TRUE)
    /\ call = [pc |-> "idle", content |-> NoContent, previous |-> NoContent, data |-> NoContent]
    /\ ret = NoReturn
    /\ parses = 0
    /\ engine = IdleEngine

\* p.write_text(data): open(p, "w") creates or truncates the file.
SaveOpen ==
    /\ call.pc = "idle"
    /\ call' = [pc |-> "write", content |-> <<>>, previous |-> call.content,
                data |-> dumps(registry)]
    /\ UNCHANGED <<registry, learned, parser, ret, parses, engine>>

\* The text reaches the file piece by piece.
SaveWrite ==
    /\ call.pc = "write"
    /\ Len(call.content) < Len(call.data)
    /\ call' = [call EXCEPT !.content = Append(@, call.data[Len(call.content) + 1])]
    /\ UNCHANGED <<registry, learned, parser, ret, parses, engine>>

\* The file is closed: save returns.
SaveClose ==
    /\ call.pc = "write"
    /\ Len(call.content) = Len(call.data)
    /\ call' = [call EXCEPT !.pc = "idle"]
    /\ UNCHANGED <<registry, learned, parser, ret, parses, engine>>

\* The process is stopped while save is at work: the file stays as it is.
SaveInterrupted ==
    /\ call.pc = "write"
    /\ call' = [call EXCEPT !.pc = "stopped"]
    /\ UNCHANGED <<registry, learned, parser, ret, parses, engine>>

\* The registry learns between one save and the next.
LearnBetweenSaves ==
    /\ call.pc = "idle"
    /\ learned < MaxLearn
    /\ \E s \in SchemaTables, d \in DBs :
          \/ registry' = learn_from_create(registry, "table", s, d)
          \/ registry' = learn_from_targets(registry, s, d)
          \/ registry' = learn_from_references(registry, s, d)
    /\ learned' = learned + 1
    /\ UNCHANGED <<parser, call, ret, parses, engine>>

NextSave ==
    \/ SaveOpen
    \/ SaveWrite
    \/ SaveClose
    \/ SaveInterrupted
    \/ LearnBetweenSaves

SpecSave == SaveInit /\ [][NextSave]_vars

\* ---- run_impact on an Engine that ran extract ----
\* Files that are written, that fail before they are parsed or at the write,
\* and whose object is ignored.
ImpactFileLists ==
    UNION {[1..n -> {SqlFile("a", "none", FALSE, FALSE), SqlFile("a", "read", FALSE, FALSE),
                     SqlFile("a", "write", FALSE, FALSE),
                     SqlFile("a", "none", TRUE, FALSE)}] : n \in 0..MaxFiles}

\* The run_extract calls that have returned.
ExtractsDone == IF engine.pc = "done" THEN parses + 1 ELSE parses

ExtractOnEngine ==
    /\ engine.pc = "idle"
    /\ \E files \in ImpactFileLists : run_extract(files)

\* The caller has the result: the Engine is ready for the next call.
EngineReused ==
    /\ engine.pc = "done"
    /\ parses + 1 < MaxParses
    /\ engine' = [IdleEngine EXCEPT !._column_graph = engine._column_graph]
    /\ parses' = parses + 1
    /\ UNCHANGED <<registry, learned, parser, call, ret>>

\* if not self._column_graph: the message; else the graph is searched.
run_impact(e) ==
    IF e._column_graph = NoGraph
    THEN [kind |-> "impact", answer |-> "no_graph", graph |-> NoGraph]
    ELSE [kind |-> "impact", answer |-> "searched", graph |-> e._column_graph]

\* run_impact between two run_extract calls; extracts and parsed tell how
\* many extracts had returned and how many objects the last one parsed.
RunImpact ==
    /\ engine.pc = "done" \/ (engine.pc = "idle" /\ parses = 0)
    /\ ret' = run_impact(engine) @@ [extracts |-> ExtractsDone,
                                     parsed |-> engine.parsed_objects]
    /\ UNCHANGED <<registry, learned, parser, call, parses, engine>>

NextImpact ==
    \/ ExtractOnEngine
    \/ ProcessFile
    \/ WriteFails
    \/ ReturnRows
    \/ EngineReused
    \/ RunImpact

SpecImpact == EngineInit /\ [][NextImpact]_vars

\* ---- the temp-naming context of the procedure handlers ----
\* _ctx_db and _ctx_obj before any handler has set them (getattr(...,  None)).
NoContext == [_ctx_db |-> None, _ctx_obj |-> <<>>]

\* What the string extractors make of a procedure text: the first of them
\* that finds a target, and the extractor that raises, if one does.
CtxTargets == {"insert_select", "merge", "update_from", "output_into", "none"}

CtxRaises == {"none", "materialized_output", "procedure_lineage"}

CtxProcedures ==
    {File(h, "procedure", TRUE, TRUE, n, <<>>, <<>>, <<>>) :
       h \in {<<>>, << <<"USE", "DbA">> >>}, n \in {<<"dbo", "P">>, <<"DbB", "dbo", "Q">>}}

\* Procedure bodies with an INSERT ... EXEC the handler can and cannot read.
CtxBodies ==
    {File(<<>>, "procedure", FALSE, TRUE, <<"dbo", "P">>, <<>>, <<>>, ss) :
       ss \in {<<InsertV>>, <<SelectFromX>>, <<InsertXExec, InsertV>>,
               <<InsertV, InsertExecBroken>>}}

\* _extract_procedure_name(sql) or object_hint
ProcedureName(sql) == IF sql.name # <<>> THEN sql.name ELSE HintName

\* The context _parse_procedure_string sets after it has saved the previous one.
ProcedureContext(p, sql) ==
    [_ctx_db |-> _infer_database_for_object(p, NoStatement, sql),
     _ctx_obj |-> _normalize_table_name_for_output(ProcedureName(sql))]

\* The unguarded calls of _parse_procedure_string: the materialized-output
\* extractor, and the lineage extractor of a procedure that writes nothing.
RaisesInProcedure(target, raises) ==
    \/ raises = "materialized_output"
    \/ raises = "procedure_lineage" /\ target = "none"

\* _parse_procedure_string on the context: every return restores the saved
\* context, an exception leaves the function with the context it has set.
_parse_procedure_string(ctx, p, sql, target, raises) ==
    IF RaisesInProcedure(target, raises)
    THEN [raised |-> TRUE, inside |-> ProcedureContext(p, sql), left |-> ProcedureContext(p, sql)]
    ELSE [raised |-> FALSE, inside |-> ProcedureContext(p, sql), left |-> ctx]

\* The context _parse_procedure_body_statements sets: the database of the
\* namespace and the procedure name as written.
BodyContext(p, sql) ==
    [_ctx_db |-> FallbackOrDefault(_infer_database_for_object(p, NoStatement, sql)),
     _ctx_obj |-> ProcedureName(sql)]

\* _parse_insert_exec raises on a statement of the body.
RaisesInBody(p, reg, sql) ==
    \E i \in 1..Len(sql.stmts) :
       /\ sql.stmts[i].kind = "insert_exec"
       /\ _parse_insert_exec(p, reg, sql.stmts[i]).obj = NoObj

_parse_procedure_body_statements(ctx, p, reg, sql) ==
    IF RaisesInBody(p, reg, sql)
    THEN [raised |-> TRUE, inside |-> BodyContext(p, sql), left |-> BodyContext(p, sql)]
    ELSE [raised |-> FALSE, inside |-> BodyContext(p, sql), left |-> ctx]

CtxInit ==
    /\ registry = EmptyRegistry
    /\ learned = 0
    /\ \E cfg \in ParserConfigs : parser = NewParser(cfg[1], cfg[2])
    /\ call = [ctx |-> NoContext, entered |-> <<>>]
    /\ ret = NoReturn
    /\ parses = 0
    /\ engine = IdleEngine

\* The report of a handler call: the context on entry, inside and on the way out.
HandlerCall(kind, ctx, r) ==
    [kind |-> kind, raised |-> r.raised, on_entry |-> ctx, inside |-> r.inside, left |-> r.left]

\* The parser at the entry of the next file, after a leading USE.
AtFile(p, sql) ==
    UseContext([p EXCEPT !.current_database = p.default_database],
               _extract_database_from_use_statement(sql))

\* parse_sql_file on a file with one CREATE PROCEDURE; an exception of the
\* handler ends in the except clause of parse_sql_file.
ParseProcedureFile ==
    /\ parses < MaxFiles
    /\ \E sql \in CtxProcedures, target \in CtxTargets, raises \in CtxRaises :
          /\ parser' = AtFile(parser, sql)
          /\ \E r \in {_parse_procedure_string(call.ctx, AtFile(parser, sql), sql, target, raises)} :
                /\ call' = [ctx |-> r.left, entered |-> Append(call.entered, call.ctx)]
                /\ ret' = HandlerCall("procedure_string", call.ctx, r)
    /\ parses' = parses + 1
    /\ UNCHANGED <<registry, learned, engine>>

\* The body handler on the text of a procedure sqlglot could not parse.
ParseProcedureBody ==
    /\ parses < MaxFiles
    /\ \E sql \in CtxBodies :
          /\ parser' = AtFile(parser, sql)
          /\ \E r \in {_parse_procedure_body_statements(call.ctx, AtFile(parser, sql),
                                                        registry, sql)} :
                /\ call' = [ctx |-> r.left, entered |-> Append(call.entered, call.ctx)]
                /\ ret' = HandlerCall("procedure_body", call.ctx, r)
    /\ parses' = parses + 1
    /\ UNCHANGED <<registry, learned, engine>>

\* A file of another route: the context is neither read nor written.
ParseOtherFile ==
    /\ parses < MaxFiles
    /\ \E h \in {<<>>, << <<"USE", "DbA">> >>} :
          parser' = AtFile(parser, File(h, "table", TRUE, TRUE, <<"dbo", "T">>, <<"a">>, <<>>, <<>>))
    /\ call' = [call EXCEPT !.entered = Append(@, call.ctx)]
    /\ ret' = [kind |-> "other", raised |-> FALSE, on_entry |-> call.ctx,
               inside |-> call.ctx, left |-> call.ctx]
    /\ parses' = parses + 1
    /\ UNCHANGED <<registry, learned, engine>>

NextCtx ==
    \/ ParseProcedureFile
    \/ ParseProcedureBody
    \/ ParseOtherFile

SpecCtx == CtxInit /\ [][NextCtx]_vars

\* ---- ObjectGraph: add_object and topological_sort on any graph ----
MaxObjects == 3

ObjectNames == {"a", "A", "b", "c"}

\* Dependencies as written: on an object of the graph, in another case, or on
\* an object that is never added ("x").
DependencySets == SUBSET {"a", "B", "c", "x"}

\* The orders in which Python may iterate over a set of dependencies.
IterationOrders == {<<"a", "B", "c", "x">>, <<"x", "c", "B", "a">>}

\* _objects is the sequence of the keys in insertion order, _dependencies the
\* dict from key to the dependencies of the object last added under it.
EmptyGraph == [_objects |-> <<>>, _dependencies |-> EmptyMap]

add_object(g, name, dependencies) ==
    [_objects |-> IF Lower(name) \in DOMAIN g._dependencies THEN g._objects
                  ELSE Append(g._objects, Lower(name)),
     _dependencies |-> Put(g._dependencies, Lower(name), dependencies)]

\* The dependencies of a node in the order of one iteration over the set.
Iterated(dependencies, order) == SelectSeq(order, LAMBDA d : d \in dependencies)

\* temp_visited.remove(node); visited.add(node); result.append(node)
FinishUnmarked(st, node) ==
    [st EXCEPT !.temp_visited = @ \ {node}, !.result = Append(@, node)]

Finish(st, node) ==
    [st EXCEPT !.temp_visited = @ \ {node}, !.visited = @ \cup {node},
               !.result = Append(@, node)]

RECURSIVE VisitNode(_, _, _, _)
RECURSIVE VisitDependencies(_, _, _, _)
\* visit(node): back at once on a node that is on the path or done.
VisitNode(g, order, node, st) ==
    IF node \in st.temp_visited THEN st
    ELSE IF node \in st.visited THEN st
    ELSE Finish(VisitDependencies(g, order, Iterated(Get(g._dependencies, node, {}), order),
                                  [st EXCEPT !.temp_visited = @ \cup {node}]),
                node)

\* The loop over the dependencies: only those the graph has are visited.
VisitDependencies(g, order, deps, st) ==
    IF deps = <<>> THEN st
    ELSE VisitDependencies(g, order, Tail(deps),
                           IF Lower(Head(deps)) \in DOMAIN g._dependencies
                           THEN VisitNode(g, order, Lower(Head(deps)), st)
                           ELSE st)

RECURSIVE VisitObjects(_, _, _, _)
\* for obj_name in self._objects: if obj_name not in visited: visit(obj_name)
VisitObjects(g, order, rest, st) ==
    IF rest = <<>> THEN st
    ELSE VisitObjects(g, order, Tail(rest),
                      IF Head(rest) \notin st.visited
                      THEN VisitNode(g, order, Head(rest), st) ELSE st)

GraphSort(g, order) ==
    VisitObjects(g, order, g._objects,
                 [visited |-> {}, temp_visited |-> {}, result |-> <<>>]).result

GraphInit ==
    /\ registry = EmptyRegistry
    /\ learned = 0
    /\ parser = NewParser(None, TRUE)
    /\ call = EmptyGraph
    /\ ret = NoReturn
    /\ parses = 0
    /\ engine = IdleEngine

\* One add_object call; learned counts the calls.
AddObject ==
    /\ ret = NoReturn
    /\ learned < MaxObjects
    /\ \E name \in ObjectNames, dependencies \in DependencySets :
          call' = add_object(call, name, dependencies)
    /\ learned' = learned + 1
    /\ UNCHANGED <<registry, parser, ret, parses, engine>>

\* topological_sort on the graph as built.
TopologicalSort ==
    /\ ret = NoReturn
    /\ \E order \in IterationOrders :
          ret' = [kind |-> "sorted", result |-> GraphSort(call, order)]
    /\ UNCHANGED <<registry, learned, parser, call, parses, engine>>

NextGraph ==
    \/ AddObject
    \/ TopologicalSort

SpecGraph == GraphInit /\ [][NextGraph]_vars

\* ---- the extract command of the CLI ----
\* The process has not ended.
NoExit == [kind |-> "none", code |-> 0]

\* The command returns without raising typer.Exit: the process ends with 0.
ExitOfExtract(result, fail_on_warn) == [kind |-> "exit", code |-> 0]

CliInit ==
    /\ registry = EmptyRegistry
    /\ learned = 0
    /\ parser = NewParser(None, TRUE)
    /\ call = [pc |-> "shell", fail_on_warn |-> FALSE]
    /\ ret = NoExit
    /\ parses = 0
    /\ engine = IdleEngine

\* extract: Engine(cfg), the request with fail_on_warn, run_extract(req).
extract(fail_on_warn, files) ==
    /\ call' = [pc |-> "extract", fail_on_warn |-> fail_on_warn]
    /\ engine' = [IdleEngine EXCEPT !.pc = "loop", !.sql_files = files, !.pos = 1]
    /\ UNCHANGED <<registry, learned, parser, ret, parses>>

Extract ==
    /\ call.pc = "shell"
    /\ engine.pc = "idle"
    /\ \E fail_on_warn \in BOOLEAN, files \in FileLists : extract(fail_on_warn, files)

\* run_extract has returned its result: _emit(result), and the command ends.
ExtractEmit ==
    /\ call.pc = "extract"
    /\ engine.pc = "done"
    /\ ret' = ExitOfExtract(engine, call.fail_on_warn)
    /\ call' = [call EXCEPT !.pc = "exited"]
    /\ UNCHANGED <<registry, learned, parser, parses, engine>>

NextCli ==
    \/ Extract
    \/ ProcessFile
    \/ WriteFails
    \/ ReturnRows
    \/ ExtractEmit

SpecCli == CliInit /\ [][NextCli]_vars

(* ------------------------------------------------------------------ *)
(* Resolution order of the registry                                     *)
(* ------------------------------------------------------------------ *)
SoftCount(reg, schema_table, db) ==
    LET c == Get(reg.soft, _wild(schema_table), <<>>)
    IN IF \E i \in 1..Len(c) : c[i][1] = db
       THEN (CHOOSE p \in {c[i] : i \in 1..Len(c)} : p[1] = db)[2]
       ELSE 0

StrictTop(reg, schema_table, db) ==
    /\ SoftCount(reg, schema_table, db) > 0
    /\ \A o \in DBs \ {db} : SoftCount(reg, schema_table, o) < SoftCount(reg, schema_table, db)

ResolveInputs == (ObjTypes \cup {"Table", "View"}) \X SchemaTables \X (DBs \cup {None, ""})

\* C3: resolve returns the hard kind-specific entry if there is one, otherwise
\* the hard wildcard entry, otherwise the database whose soft count is strictly
\* the highest (a tie does not win), otherwise the fallback the caller gave
\* ("InfoTrackerDW" when the caller gave none).
C3_ResolveOrder ==
    \A in \in ResolveInputs :
        LET t == in[1]
            st == in[2]
            fb == in[3]
            r == resolve(registry, t, st, fb)
        IN IF _key(t, st) \in DOMAIN registry.hard THEN r = registry.hard[_key(t, st)]
           ELSE IF _wild(st) \in DOMAIN registry.hard THEN r = registry.hard[_wild(st)]
           ELSE IF \E d \in DBs : StrictTop(registry, st, d)
                THEN StrictTop(registry, st, r)
           ELSE r = (IF fb \in DBs THEN fb ELSE DEFAULT_DB)

\* A soft tie without a hard entry gives the fallback, while the kind-specific
\* hard entry of another object is returned whatever the case of the kind.
C3_Witness ==
    /\ _key("table", <<"dbo", "Ref">>) \notin DOMAIN registry.hard
    /\ _wild(<<"dbo", "Ref">>) \notin DOMAIN registry.hard
    /\ SoftCount(registry, <<"dbo", "Ref">>, "DbA") = 1
    /\ SoftCount(registry, <<"dbo", "Ref">>, "DbB") = 1
    /\ resolve(registry, "table", <<"dbo", "Ref">>, "DbB") = "DbB"
    /\ Get(registry.hard, _key("view", <<"dbo", "T">>), None) = "DbA"
    /\ resolve(registry, "View", <<"dbo", "T">>, "DbB") = "DbA"

(* ------------------------------------------------------------------ *)
(* Properties of the objects parse_sql_file returns                     *)
(* ------------------------------------------------------------------ *)
\* The file of the parse that returned last.
LastFile == parser.raw_sql

HasReturned == call.pc = "idle" /\ ret.kind = "object"

LineageMatchesColumns(obj) ==
    /\ Len(obj.lineage) = Len(obj.columns)
    /\ \A i \in 1..Len(obj.lineage) : obj.lineage[i].output_column = obj.columns[i]

\* C1: every object parse_sql_file returns whose object_type is not "table"
\* has exactly as many lineage entries as schema columns, and its i-th
\* lineage entry names its i-th column, on every handler path.
C1_LineageInStep ==
    (HasReturned /\ ret.obj.object_type # "table") => LineageMatchesColumns(ret.obj)

\* Statement i writes #x from base tables only.
WritesTempFromBases(sql, i) ==
    /\ sql.stmts[i].kind = "select_into"
    /\ IsTempSegment(sql.stmts[i], "select_into")
    /\ sql.stmts[i].from # {}
    /\ \A f \in sql.stmts[i].from : f[1] \notin TempNames

\* Statement j reads the temp table statement i wrote and writes a
\* persistent target.
ReadsTempIntoPersistent(sql, i, j) ==
    /\ sql.stmts[j].kind \in {"insert_select", "select_into"}
    /\ ~IsWrittenTemp(sql.stmts[j].target)
    /\ sql.stmts[i].target \in sql.stmts[j].from

HasTempThenPersistent(sql) ==
    \E i \in 1..Len(sql.stmts) : \E j \in (i + 1)..Len(sql.stmts) :
       WritesTempFromBases(sql, i) /\ ReadsTempIntoPersistent(sql, i, j)

\* C2: when a body holds SELECT ... INTO #x FROM <base tables> and a later
\* statement reads #x to write a persistent target, no temp-table name is
\* among the dependencies of the persistent object that is returned.
C2_NoTempDependency ==
    (/\ HasReturned
     /\ HasTempThenPersistent(LastFile)
     /\ IsPersistentName(ret.obj.name))
       => \A d \in ret.obj.dependencies : ~IsTempName(d)

\* The database the registry holds for an object dbo.Ref some file created.
RefRegistered(db) ==
    \E t \in ObjTypes : Get(registry.hard, _key(t, <<"dbo", "Ref">>), None) = db

\* The namespaces the returned object's lineage gives its references to dbo.Ref.
RefNamespaces(obj) ==
    {r[1] : r \in {x \in UNION {obj.lineage[i].input_fields : i \in 1..Len(obj.lineage)} :
                     LowerName(x[2]) = <<"dbo", "ref">>}}

ReadsRef(sql) ==
    \E i \in 1..Len(sql.stmts) : <<"dbo", "Ref">> \in sql.stmts[i].from

\* C4: with one shared registry, after a file created dbo.Ref and registered
\* its database, a later file with another USE/default database that reads
\* dbo.Ref without a database gets the namespace of the created object for
\* that reference.
C4_ReferenceFollowsRegistry ==
    \A db \in DBs :
       (/\ HasReturned
        /\ parses = 2
        /\ parser.has_registry
        /\ ReadsRef(LastFile)
        /\ RefRegistered(db)
        /\ ContextDb(parser) # db)
          => \A ns \in RefNamespaces(ret.obj) : ns = db

(* ------------------------------------------------------------------ *)
(* The database _ns_and_name picks                                      *)
(* ------------------------------------------------------------------ *)
\* Non-temp identifiers of one to four segments, and the kinds they are
\* resolved as.
NameCases == {<<"T">>, <<"dbo", "T">>, <<"dbo", "Ref">>, <<"DbA", "dbo", "Ref">>,
              <<"DbB", "dbo", "T">>, <<"View", "dbo", "Ref">>,
              <<"View", "DbA", "dbo", "Ref">>}

\* What the registry knows of schema.table: the hard entry of the kind, the
\* hard wildcard entry, the strictly highest soft count; None otherwise.
RegistryEntry(reg, obj_type, schema_table) ==
    IF _key(obj_type, schema_table) \in DOMAIN reg.hard
    THEN reg.hard[_key(obj_type, schema_table)]
    ELSE IF _wild(schema_table) \in DOMAIN reg.hard THEN reg.hard[_wild(schema_table)]
    ELSE IF \E d \in DBs : StrictTop(reg, schema_table, d)
    THEN CHOOSE d \in DBs : StrictTop(reg, schema_table, d)
    ELSE None

SchemaTableCase(n) ==
    IF Len(n) = 1 THEN <<"dbo">> \o n ELSE SubSeq(n, Len(n) - 1, Len(n))

\* The database the majority of the references of the file body name.
BodyMajority(p) == _choose_db(_infer_db_candidates_from_sql(p.raw_sql))

\* The segments that count: a leading view/function/procedure pseudo-catalog
\* is no part of the identifier.
Counted(n) == IF Len(n) >= 3 /\ Lower(n[1]) \in PSEUDO THEN Tail(n) ELSE n

\* The USE database, the configured default, the built-in default.
ContextCase(p) == IF ContextDb(p) # None THEN ContextDb(p) ELSE DEFAULT_DB

ClaimedDb(p, reg, n, h) ==
    IF Len(Counted(n)) >= 3 THEN Counted(n)[1]
    ELSE IF p.has_registry /\ RegistryEntry(reg, h, SchemaTableCase(n)) # None
    THEN RegistryEntry(reg, h, SchemaTableCase(n))
    ELSE IF BodyMajority(p) # None THEN BodyMajority(p)
    ELSE ContextCase(p)

\* C5 as stated: _ns_and_name picks the first segment of a name of 3 or more
\* segments, else the registry entry for schema.table, else the database
\* the majority of the file body names, else the USE database or the
\* configured default.
C5_OrderWithMajority ==
    \A n \in NameCases : \A h \in ObjTypes :
       _ns_and_name(parser, registry, n, h).ns = ClaimedDb(parser, registry, n, h)

OrderedDb(p, reg, n, h) ==
    IF Len(Counted(n)) >= 3 THEN Counted(n)[1]
    ELSE IF p.has_registry /\ RegistryEntry(reg, h, SchemaTableCase(n)) # None
    THEN RegistryEntry(reg, h, SchemaTableCase(n))
    ELSE ContextCase(p)

\* C5, amended: _ns_and_name picks the first segment of a name of 3 or more
\* segments, else the registry entry for schema.table, else the USE database
\* or the configured default; the references of the file body play no part.
C5_Order ==
    \A n \in NameCases : \A h \in ObjTypes :
       _ns_and_name(parser, registry, n, h).ns = OrderedDb(parser, registry, n, h)

\* A file under USE DbA whose body names DbB most: dbo.T, unknown to the
\* registry, is placed in DbA, while dbo.Ref goes where the registry has it.
C5_Witness ==
    /\ HasReturned
    /\ ContextDb(parser) = "DbA"
    /\ BodyMajority(parser) = "DbB"
    /\ parser.has_registry
    /\ RegistryEntry(registry, "table", <<"dbo", "T">>) = None
    /\ _ns_and_name(parser, registry, <<"dbo", "T">>, "table").ns = "DbA"
    /\ RegistryEntry(registry, "table", <<"dbo", "Ref">>) = "DbB"
    /\ _ns_and_name(parser, registry, <<"dbo", "Ref">>, "table").ns = "DbB"

(* ------------------------------------------------------------------ *)
(* parse_sql_file as a whole                                            *)
(* ------------------------------------------------------------------ *)
\* The call is idle or at a step of parse_sql_file that has a next step.
AtStep ==
    \/ call.pc \in {"idle", "table", "function", "script", "procedure",
                    "materialize", "finish", "except"}
    \/ call.pc = "loop" /\ call.pos \in 1..(Len(call.stmts) + 1)
    \/ call.pc = "prescan" /\ call.pos \in 1..Len(call.file.stmts)
    \/ call.pc = "segments" /\ call.pos \in 1..(Len(call.file.stmts) + Len(call.file.stmts))

Processed == 1..(IF engine.pc = "idle" THEN 0 ELSE engine.pos - 1)

Failing(f) == f.fails # "none"

HasOutput(i) ==
    /\ engine.sql_files[i].stem \in engine.disk
    /\ \E k \in 1..Len(engine.outputs) : engine.outputs[k] = <<i, engine.sql_files[i].stem>>

\* Every failing file has added one warning, every other warning comes from a
\* written file of which nothing was learned; the run goes on to the end; the
\* rows returned name files that are in out_dir.
FailureIsolated ==
    /\ engine.warnings =
          Cardinality({i \in Processed : Failing(engine.sql_files[i])})
            + Cardinality({i \in Processed : engine.sql_files[i].bare})
    /\ (engine.pc = "loop") => ENABLED NextEngine
    /\ (engine.pc = "done") => engine.pos > Len(engine.sql_files)
    /\ \A k \in 1..Len(engine.outputs) : engine.outputs[k][2] \in engine.disk

\* C7 as stated: a failing file never stops the run and adds exactly one
\* warning, every other selected file is processed and gets its output, and
\* the JSON files written stay in out_dir.
C7_EveryOtherFileHasOutput ==
    /\ FailureIsolated
    /\ \A i \in Processed : ~Failing(engine.sql_files[i]) => HasOutput(i)

\* C7, amended: a failing file never stops the run and adds exactly one
\* warning, every other selected file whose object matches no ignore pattern
\* is processed and gets its output, and the JSON files written stay in
\* out_dir.
C7_FailureIsolated ==
    /\ FailureIsolated
    /\ \A i \in Processed :
          (~Failing(engine.sql_files[i]) /\ ~engine.sql_files[i].ignored) => HasOutput(i)

\* A run of three files whose second file fails to parse: one warning, and
\* the first and the third file have their outputs.
C7_Witness ==
    /\ engine.pc = "done"
    /\ Len(engine.sql_files) = 3
    /\ engine.sql_files[2].fails = "parse"
    /\ engine.sql_files[1] = SqlFile("a", "none", FALSE, FALSE)
    /\ engine.sql_files[3] = SqlFile("b", "none", FALSE, FALSE)
    /\ engine.warnings = 1
    /\ HasOutput(1)
    /\ HasOutput(3)

(* ------------------------------------------------------------------ *)
(* The database context after a parse                                   *)
(* ------------------------------------------------------------------ *)
\* The database of the leading USE statement of the file parsed last, the
\* default database of the parser when the file has none.
FileDb ==
    IF _extract_database_from_use_statement(LastFile) # None
    THEN _extract_database_from_use_statement(LastFile)
    ELSE parser.default_database

\* The file creates the object it returns, under a name without a database.
CreatesUnqualified ==
    /\ LastFile.name # <<>>
    /\ Len(LastFile.name) < 3
    /\ ret.obj.object_type \in {"table", "function"}

\* C8: after every parse_sql_file call current_database is the database of
\* the file's leading USE statement, the parser's default database when the
\* file has none, and an object the file creates without a database
\* qualifier lies in the namespace of that database.
C8_ContextFollowsFile ==
    HasReturned =>
       /\ parser.current_database = FileDb
       /\ (CreatesUnqualified /\ FileDb # None) => ret.obj.namespace = FileDb

(* ------------------------------------------------------------------ *)
(* The per-file state of the parser                                     *)
(* ------------------------------------------------------------------ *)
PerFileStateEmpty(p) ==
    /\ p.cte_registry = EmptyMap
    /\ p.temp_registry = EmptyMap
    /\ p.temp_sources = EmptyMap
    /\ p.temp_lineage = EmptyMap
    /\ p.proc_acc = EmptyMap
    /\ p.temp_version = EmptyMap

TempsWritten(sql) ==
    {sql.stmts[i].target[1] :
       i \in {j \in 1..Len(sql.stmts) :
                sql.stmts[j].target # <<>> /\ sql.stmts[j].target[1] \in TempNames}}

TargetsWritten(sql) ==
    {_strip_db(sql.stmts[i].target) :
       i \in {j \in 1..Len(sql.stmts) : sql.stmts[j].kind = "insert_select"}}

SelectIntos(stmts, n, t) ==
    Cardinality({i \in 1..n : IsTempSegment(stmts[i], "select_into") /\ stmts[i].target[1] = t})

Version(t) == Get(parser.temp_version, t, 0)

\* C10: within one file each SELECT ... INTO #x makes exactly one new version
\* of #x.  In the script loop, and in the pre-scan of a procedure, the
\* version counter of #x is the number of SELECT ... INTO #x statements
\* handled so far; when the pre-scan and the segment re-parse of a procedure
\* body are both done it is the number of SELECT ... INTO #x statements of
\* the body; it is never more than the number of such statements of the file.
C10_OneVersionPerSelectInto ==
    \A t \in TempNames :
       /\ Version(t) <= SelectIntos(LastFile.stmts, Len(LastFile.stmts), t)
       /\ call.pc = "loop" => Version(t) = SelectIntos(call.stmts, call.pos - 1, t)
       /\ call.pc = "prescan" => Version(t) = SelectIntos(call.file.stmts, call.pos - 1, t)
       /\ (call.pc = "finish" /\ call.file.ast_ok /\ call.file.seg_ok)
             => Version(t) = SelectIntos(call.file.stmts, Len(call.file.stmts), t)

(* ------------------------------------------------------------------ *)
(* Reading a temp table by its simple name                              *)
(* ------------------------------------------------------------------ *)
\* C11: at every point of a parse, a read of "#x" by its simple name gives
\* the columns and the per-column lineage of the highest version of #x
\* committed so far, whatever SELECT ... INTO #x and INSERT INTO #x SELECT
\* statements came before.
C11_ReadsHighestVersion ==
    \A t \in TempNames :
       Version(t) > 0 =>
          /\ _infer_table_columns_unified(parser, <<t>>)
                = parser.temp_registry[<<t, Version(t)>>]
          /\ parser.temp_lineage[<<t, 0>>] = parser.temp_lineage[<<t, Version(t)>>]

(* ------------------------------------------------------------------ *)
(* The output dataset of a body with several writes                     *)
(* ------------------------------------------------------------------ *)
\* The SELECT ... INTO and INSERT INTO ... SELECT statements of a text that
\* write a persistent target.
PersistentWrites(sql) ==
    {i \in 1..Len(sql.stmts) :
       /\ sql.stmts[i].kind \in {"select_into", "insert_select"}
       /\ ~IsWrittenTemp(sql.stmts[i].target)}

\* The text has no other persistent output: no CREATE and no INSERT ... EXEC
\* into a persistent table.
OnlyWrites(sql) ==
    \A i \in 1..Len(sql.stmts) :
       /\ sql.stmts[i].kind # "create_view"
       /\ sql.stmts[i].kind = "insert_exec" => IsWrittenTemp(sql.stmts[i].target)

\* The parse went through: sqlglot read the text and its segments, and the
\* object does not come from the exception handler.
ParsedThrough ==
    /\ HasReturned
    /\ LastFile.ast_ok /\ LastFile.seg_ok
    /\ ~ret.obj.is_fallback /\ ret.obj.object_type # "unknown"

\* C12: when a procedure body or script writes persistent targets one after
\* another, the object returned names the target of the last such write in
\* statement order; a temp table is never the output while the text writes a
\* persistent target.
C12_LastPersistentWins ==
    (ParsedThrough /\ OnlyWrites(LastFile) /\ PersistentWrites(LastFile) # {})
       => /\ SchemaTableOf(ret.obj.name)
               = SchemaTableOf(LastFile.stmts[LastOf(PersistentWrites(LastFile))].target)
          /\ ~IsTempName(ret.obj.name)

(* ------------------------------------------------------------------ *)
(* What _proc_acc_finalize returns                                      *)
(* ------------------------------------------------------------------ *)
ColumnsOf(lineage) == {lineage[i].output_column : i \in 1..Len(lineage)}

\* The references a ColumnLineage list holds for a column.
InputsOf(lineage, c) ==
    UNION {RefSet(lineage[i].input_fields) :
             i \in {j \in 1..Len(lineage) : lineage[j].output_column = c}}

\* One entry per column, each IDENTITY with the merge description and a
\* strictly ascending input list.
IsMerged(out) ==
    \A i \in 1..Len(out) :
       /\ \A j \in 1..Len(out) : out[j].output_column = out[i].output_column => j = i
       /\ out[i].transformation_type = "IDENTITY"
       /\ out[i].transformation_description = "merged from multiple branches"
       /\ \A k \in 1..(Len(out[i].input_fields) - 1) :
             RefLess(out[i].input_fields[k], out[i].input_fields[k + 1])

\* C13: _proc_acc_finalize returns one ColumnLineage per distinct column
\* added, IDENTITY with description "merged from multiple branches", whose
\* input list is sorted, free of duplicates and the union of the triples
\* added for the column; as that union is a set, each column's list does not
\* depend on the order of the adds nor on how often a triple was added.
C13_FinalizeIsSortedUnion ==
    /\ IsMerged(MergedLineage(Get(parser.proc_acc, AccTarget, <<>>)))
    /\ ColumnsOf(MergedLineage(Get(parser.proc_acc, AccTarget, <<>>))) = call.columns
    /\ \A c \in {"a", "b"} :
          InputsOf(MergedLineage(Get(parser.proc_acc, AccTarget, <<>>)), c)
             = {r \in AccRefs : <<c, r>> \in call.triples}
    /\ ret.kind = "lineage" =>
          ret.lineage = MergedLineage(Get(parser.proc_acc, AccTarget, <<>>))

\* Finalize has returned two columns, one of them with three merged inputs.
C13_Witness ==
    /\ ret.kind = "lineage"
    /\ Len(ret.lineage) = 2
    /\ \E i \in 1..2 : Len(ret.lineage[i].input_fields) = 3

(* ------------------------------------------------------------------ *)
(* C14: IDENTITY and RENAME lineage has one input                       *)
(* ------------------------------------------------------------------ *)
\* C14: every ColumnLineage of kind IDENTITY or RENAME has exactly one input
\* field, the lineage _proc_acc_finalize returns included.
C14_IdentityHasOneInput ==
    ret.kind = "lineage" =>
       \A i \in 1..Len(ret.lineage) :
          ret.lineage[i].transformation_type \in {"IDENTITY", "RENAME"}
             => Len(ret.lineage[i].input_fields) = 1

(* ------------------------------------------------------------------ *)
(* C15: star expansion and duplicate column names                       *)
(* ------------------------------------------------------------------ *)
\* C15: the output column list _handle_star_expansion returns for a SELECT
\* with a star, alone or mixed with explicit expressions, has no two columns
\* of the same name.
C15_NoDuplicateColumns ==
    ret.kind = "columns" =>
       \A i, j \in 1..Len(ret.output_columns) :
          ret.output_columns[i] = ret.output_columns[j] => i = j

\* The part that holds: the columns the stars themselves add are distinct.
C15_StarColumnsDistinct ==
    ret.kind = "columns" =>
       \A i, j \in 1..Len(ret.lineage) :
          (/\ ret.lineage[i].transformation_type = "IDENTITY"
           /\ ret.lineage[j].transformation_type = "IDENTITY"
           /\ ret.lineage[i].output_column = ret.lineage[j].output_column) => i = j

(* ------------------------------------------------------------------ *)
(* C16: pseudo-catalog prefixes                                         *)
(* ------------------------------------------------------------------ *)
\* C16: for a name that starts with View., Table., StoredProcedure. or
\* Function. in any letter case, the database of the namespace _ns_and_name
\* returns is never that prefix word.
C16_PrefixNeverDatabase ==
    ret.kind = "ns" => Lower(ret.nn.ns) # Lower(call.table_name[1])

(* ------------------------------------------------------------------ *)
(* C17: INSERT INTO ... EXEC                                            *)
(* ------------------------------------------------------------------ *)
\* The text is the one statement INSERT INTO <target> EXEC <proc>.
IsInsertExecScript(sql) ==
    /\ Route(sql) = "script"
    /\ Len(sql.stmts) = 1
    /\ IsInsertExec(sql.stmts[1])

\* The columns, lineage and dependencies of INSERT ... EXEC as the claim has
\* them.
ExecShape(obj, st) ==
    /\ obj.columns = IF st.collist # <<>> THEN st.collist ELSE <<"output_col_1", "output_col_2">>
    /\ LineageMatchesColumns(obj)
    /\ \A i \in 1..Len(obj.lineage) :
          \E ref \in obj.lineage[i].input_fields :
             /\ obj.lineage[i].input_fields = {ref}
             /\ ref[2] = SchemaTableOf(ProcOf(st))
             /\ ref[3] = "*"
    /\ \E d \in obj.dependencies : SchemaTableOf(d) = SchemaTableOf(ProcOf(st))

\* C17: for INSERT INTO <target> EXEC <proc>, read by _parse_insert_exec or by
\* _try_insert_exec_fallback, the columns are the target column list or else
\* two placeholders, every column has the single input (proc, "*") and the
\* procedure is a dependency of the object.
C17_InsertExecShape ==
    (HasReturned /\ IsInsertExecScript(LastFile)) => ExecShape(ret.obj, LastFile.stmts[1])

\* The part that holds: the object _parse_insert_exec builds.
C17_AstPathShape ==
    (ParsedThrough /\ IsInsertExecScript(LastFile)) => ExecShape(ret.obj, LastFile.stmts[1])

(* ------------------------------------------------------------------ *)
(* C18: the order run_extract processes the files in                    *)
(* ------------------------------------------------------------------ *)
\* Every element comes after the elements it depends on.
DependenciesFirst(order) ==
    \A i \in 1..Len(order) :
       \A d \in DependsOn(order[i]) :
          (\E j \in 1..Len(order) : order[j] = d) => \E j \in 1..(i - 1) : order[j] = d

\* C18: run_extract processes every file after the files that define the
\* objects it depends on, the order ObjectGraph.topological_sort gives.
C18_DependenciesFirst ==
    (engine.pc = "done" /\ PathOrdered(engine.sql_files))
       => DependenciesFirst(ProcessedOrder(engine))

\* The order topological_sort itself returns is dependencies first.
C18_TopologicalSortOrder ==
    engine.pc = "done" =>
       DependenciesFirst(topological_sort(ProcessedOrder(engine)))

(* ------------------------------------------------------------------ *)
(* C19: extraction twice                                                *)
(* ------------------------------------------------------------------ *)
BothRunsDone == engine.pc = "twice" /\ Len(engine.results) = 4 * Len(engine.corpus)

\* The second run returned, call by call, what the first run returned.
SameResults ==
    \A k \in 1..(2 * Len(engine.corpus)) :
       engine.results[k] = engine.results[k + 2 * Len(engine.corpus)]

\* C19: run_extract twice on the same files, with the same configuration
\* and the same starting ObjectDbRegistry, on one adapter and parser, writes
\* the same outputs and builds the same column graph.
C19_SecondRunSame ==
    (BothRunsDone /\ registry = EmptyRegistry) => SameResults

(* ------------------------------------------------------------------ *)
(* C20: learn_from_create and the database of the raw name              *)
(* ------------------------------------------------------------------ *)
\* The entries learn_from_create writes: the hard keys of an object type.
CreateKeys(reg) == {k \in DOMAIN reg.hard : k[1] # "*"}

\* The text creates an object under a name with a database part.
CreatesWithDb(sql) ==
    \/ ExplicitDb(sql.name)
    \/ \E i \in 1..Len(sql.stmts) :
          sql.stmts[i].kind = "create_view" /\ ExplicitDb(sql.stmts[i].target)

\* C20: learn_from_create is called only for a CREATE whose raw name carries
\* a database: a step of the parse of a text whose CREATE names have none
\* leaves the entries of learn_from_create in the hard map as they were.
C20_LearnsOnlyExplicitDb ==
    [][(call.pc # "idle" /\ ~CreatesWithDb(call.file))
          => /\ CreateKeys(registry') = CreateKeys(registry)
             /\ \A k \in CreateKeys(registry) : registry'.hard[k] = registry.hard[k]]_vars

\* The part that holds: without USE and without default database nothing
\* is learned from such a CREATE.
C20_NoContextNoLearning ==
    [][(/\ call.pc # "idle" /\ ~CreatesWithDb(call.file)
        /\ ContextDb(parser) = None /\ ContextDb(parser') = None)
          => /\ CreateKeys(registry') = CreateKeys(registry)
             /\ \A k \in CreateKeys(registry) : registry'.hard[k] = registry.hard[k]]_vars

(* ------------------------------------------------------------------ *)
(* The soft counts of ObjectDbRegistry                                  *)
(* ------------------------------------------------------------------ *)
\* The names that share the wildcard key of schema_table.
SameKey(schema_table) == {n \in SchemaTables : _wild(n) = _wild(schema_table)}

RECURSIVE CallsOf(_, _, _)
\* The number of calls counted in h for database db and the names S.
CallsOf(h, S, db) ==
    IF S = {} THEN 0
    ELSE LET n == CHOOSE x \in S : TRUE
         IN h[<<n, db>>] + CallsOf(h, S \ {n}, db)

SoftCountIsWeightedCalls ==
    \A s \in SchemaTables, d \in DBs :
        SoftCount(registry, s, d) = 10 * CallsOf(call.targets, SameKey(s), d)
                                    + CallsOf(call.references, SameKey(s), d)

\* The soft map has the wildcard keys of the names learned and no other.
SoftKeysAreLearned ==
    /\ DOMAIN registry.soft \subseteq {_wild(s) : s \in SchemaTables}
    /\ \A k \in DOMAIN registry.soft : \A i \in 1..Len(registry.soft[k]) :
          registry.soft[k][i][1] \in DBs

\* A step that counts a call with an empty name or an empty database.
EmptyLearnStep ==
    \E s \in LearnNames, d \in LearnDbs :
        /\ s = <<>> \/ d \notin DBs
        /\ \/ call' = [call EXCEPT !.targets[<<s, d>>] = @ + 1]
           \/ call' = [call EXCEPT !.references[<<s, d>>] = @ + 1]

\* C21: after any sequence of learning calls the soft count of database d
\* under the wildcard key of schema.table (the name without letter case) is
\* 10 times the number of learn_from_targets calls plus the number of
\* learn_from_references calls made for that name and d, and a call with an
\* empty name or an empty database changes nothing.
C21_SoftCountIsWeightedCalls ==
    /\ [](SoftCountIsWeightedCalls /\ SoftKeysAreLearned)
    /\ [][EmptyLearnStep => registry' = registry]_vars

\* One target call and two reference calls for dbo.Ref in DbA, one of them
\* under the name dbo.ref: the count is 12.
C21_Witness ==
    /\ call.pc = "learn"
    /\ call.targets[<<<<"dbo", "Ref">>, "DbA">>] = 1
    /\ call.references[<<<<"dbo", "Ref">>, "DbA">>] = 1
    /\ call.references[<<<<"dbo", "ref">>, "DbA">>] = 1
    /\ SoftCount(registry, <<"dbo", "Ref">>, "DbA") = 12

(* ------------------------------------------------------------------ *)
(* parse_sql_file when sqlglot cannot read the text                     *)
(* ------------------------------------------------------------------ *)
\* The string fallback finds a dependency or one of its INSERT patterns in
\* the text.
FallbackFinds(sql) ==
    \/ _extract_basic_dependencies(_cut_to_first_statement(sql)) # {}
    \/ FirstStmt(_cut_to_first_statement(sql), IsInsertTable) # 0
    \/ FirstStmt(_cut_to_first_statement(sql), IsInsertExec) # 0

\* The call that returned read a script sqlglot.parse raised on.
AstFailed == HasReturned /\ Route(LastFile) = "script" /\ ~LastFile.ast_ok

IsEmptyUnknown(obj) ==
    /\ obj.object_type = "unknown"
    /\ obj.columns = <<>>
    /\ obj.lineage = <<>>
    /\ obj.dependencies = {}

\* C22: when the AST parse of a whole file fails, parse_sql_file returns an
\* object flagged is_fallback that carries a reason code if the string
\* fallback finds a dependency or an INSERT pattern, and otherwise an object
\* of type "unknown" with no columns, no lineage and no dependencies.
C22_FallbackHasReason ==
    AstFailed =>
        IF FallbackFinds(LastFile)
        THEN ret.obj.is_fallback /\ ret.obj.no_output_reason # None
        ELSE IsEmptyUnknown(ret.obj)

\* The part that holds: the flag, and the empty "unknown" object otherwise.
C22_FallbackFlagOrUnknown ==
    AstFailed =>
        IF FallbackFinds(LastFile)
        THEN ret.obj.is_fallback /\ ret.obj.object_type # "unknown"
        ELSE IsEmptyUnknown(ret.obj) /\ ~ret.obj.is_fallback

(* ------------------------------------------------------------------ *)
(* The exit code of the extract command                                 *)
(* ------------------------------------------------------------------ *)
\* C23: extract run with --fail-on-warn ends with exit code 1 when the run
\* counted a warning, and with 0 when it counted none or the flag is not set.
C23_FailOnWarnExitCode ==
    ret.kind = "exit" =>
        ret.code = IF call.fail_on_warn /\ engine.warnings > 0 THEN 1 ELSE 0

\* The part that holds: without a warning, or without the flag, the exit
\* code is 0.
C23_ExitZeroOtherwise ==
    (ret.kind = "exit" /\ ~(call.fail_on_warn /\ engine.warnings > 0)) => ret.code = 0

(* ------------------------------------------------------------------ *)
(* The file ObjectDbRegistry.save writes                                *)
(* ------------------------------------------------------------------ *)
\* C24: save writes the map atomically: during a save and after a save
\* stopped at any point the file at path holds the complete previous content
\* or the complete new content, never a part of the map.
C24_SaveIsAtomic ==
    call.pc \in {"write", "stopped"} =>
        (call.content = call.previous \/ call.content = call.data)

\* The part that holds: a save that returns leaves the complete new content.
C24_CompletedSaveIsWhole ==
    (call.pc = "idle" /\ call.content # NoContent) => call.content = call.data

(* ------------------------------------------------------------------ *)
(* run_extract: one JSON per input                                      *)
(* ------------------------------------------------------------------ *)
\* The output files the rows name.
RowTargets(e) == {e.outputs[i][2] : i \in 1..Len(e.outputs)}

\* The selected files that are written: no step fails before or at the write
\* and the object is not ignored.
WrittenFiles(e) ==
    {i \in 1..Len(e.sql_files) :
       /\ e.sql_files[i].fails \in {"none", "facets"}
       /\ ~e.sql_files[i].ignored}

\* No two selected files have the same stem.
DistinctStems(e) ==
    \A i, j \in 1..Len(e.sql_files) : e.sql_files[i].stem = e.sql_files[j].stem => i = j

\* C25: after run_extract every selected file that was processed without
\* error and was not ignored has an output file of its own: there are as many
\* distinct output files as rows, one row per such file.
C25_OneJsonPerInput ==
    engine.pc = "done" =>
        /\ Len(engine.outputs) = Cardinality(WrittenFiles(engine))
        /\ Cardinality(RowTargets(engine)) = Len(engine.outputs)
        /\ RowTargets(engine) \subseteq engine.disk

\* The part that holds: one row per written file, each naming a file that is
\* in out_dir, and as many files as rows when no two inputs share a stem.
C25_OneRowPerInput ==
    engine.pc = "done" =>
        /\ Len(engine.outputs) = Cardinality(WrittenFiles(engine))
        /\ RowTargets(engine) \subseteq engine.disk
        /\ DistinctStems(engine) => Cardinality(RowTargets(engine)) = Len(engine.outputs)

(* ------------------------------------------------------------------ *)
(* Column ordinals                                                      *)
(* ------------------------------------------------------------------ *)
\* The ordinals are 0..N-1 in the order of the column list.
Contiguous(columns) == \A i \in 1..Len(columns) : columns[i].ordinal = i - 1

\* C26: every TableSchema the program registers or returns, from CREATE
\* TABLE, from SELECT lineage and star expansion, from INSERT column lists and
\* from catalog seeding, has the ordinals 0..N-1 in the order of its columns.
C26_OrdinalsContiguous == ret.kind = "schema" => Contiguous(ret.columns)

\* The part that holds: the schemas of star expansion and INSERT column lists.
C26_CountedOrdinalsContiguous ==
    (ret.kind = "schema" /\ ret.origin \in {"star", "insert"}) => Contiguous(ret.columns)

(* ------------------------------------------------------------------ *)
(* SchemaRegistry lookup                                                *)
(* ------------------------------------------------------------------ *)
\* The registrations made under the pair (namespace, name), letter case
\* ignored.
UnderPair(namespace, name) ==
    {i \in 1..Len(call.registered) :
       /\ LowerName(call.registered[i].namespace) = LowerName(namespace)
       /\ LowerName(call.registered[i].name) = LowerName(name)}

\* The registrations whose key is the key of (namespace, name).
UnderKey(namespace, name) ==
    {i \in 1..Len(call.registered) :
       SchemaKey(call.registered[i].namespace, call.registered[i].name)
         = SchemaKey(namespace, name)}

Latest(S) == call.registered[CHOOSE i \in S : \A j \in S : j <= i]

\* C27: get(namespace, name) returns the schema registered last under a pair
\* equal to (namespace, name) when letter case is ignored, nothing when there
\* was no such registration; registrations under other pairs play no part.
C27_GetReturnsLatestOfPair ==
    \A namespace \in RegNamespaces, name \in RegNames :
        get(call.schemas, namespace, name)
          = IF UnderPair(namespace, name) = {} THEN NotFound
            ELSE Latest(UnderPair(namespace, name))

\* The part that holds: get returns the schema registered last under the
\* same lower-cased "namespace.name" text, nothing when there is none.
C27_GetReturnsLatestOfKey ==
    \A namespace \in RegNamespaces, name \in RegNames :
        get(call.schemas, namespace, name)
          = IF UnderKey(namespace, name) = {} THEN NotFound
            ELSE Latest(UnderKey(namespace, name))

(* ------------------------------------------------------------------ *)
(* run_impact after run_extract                                         *)
(* ------------------------------------------------------------------ *)
\* run_impact, called after an extract that parsed an object, searched the
\* graph that extract built.
SearchesGraphOfExtract ==
    (ret.extracts > 0 /\ ret.parsed > 0) =>
        (ret.answer = "searched" /\ ret.graph = [run |-> ret.extracts, objects |-> ret.parsed])

\* C28: after run_extract has completed and parsed an object, a
\* following run_impact on the same Engine searches the column graph of that
\* extract; the answer that no graph is available is given only when no
\* extract has run before.
C28_MissingGraphOnlyBeforeExtract ==
    ret.kind = "impact" =>
        /\ SearchesGraphOfExtract
        /\ ret.answer = "no_graph" => ret.extracts = 0

\* The part that holds: run_impact searches the graph of the extract before
\* it when that extract parsed an object, and says that no graph is available
\* only when no extract has run or the last one parsed no object.
C28_MissingGraphOnlyWithoutObjects ==
    ret.kind = "impact" =>
        /\ SearchesGraphOfExtract
        /\ ret.answer = "no_graph" => (ret.extracts = 0 \/ ret.parsed = 0)

C29_ContextRestoredOnReturn ==
    /\ ret.kind \in {"procedure_string", "procedure_body"} /\ ~ret.raised
          => ret.left = ret.on_entry /\ ret.inside # NoContext
    /\ ret.kind \in {"procedure_string", "procedure_body"} /\ ret.raised
          => ret.left = ret.inside
    /\ call.ctx # NoContext => ret.kind # "none"

(* ------------------------------------------------------------------ *)
(* C30                                                                  *)
(* ------------------------------------------------------------------ *)
\* The dependencies of a key that are objects of the graph.
InGraphDeps(g, k) ==
    {Lower(d) : d \in g._dependencies[k]} \cap DOMAIN g._dependencies

\* The keys reached from k over one or more dependencies.
RECURSIVE ReachedFrom(_, _, _)
ReachedFrom(g, S, n) ==
    IF n = 0 THEN S
    ELSE ReachedFrom(g, S \cup UNION {InGraphDeps(g, k) : k \in S}, n - 1)

HasCycle(g) ==
    \E k \in DOMAIN g._dependencies :
       k \in ReachedFrom(g, InGraphDeps(g, k), Cardinality(DOMAIN g._dependencies))

ListedOnce(g, result) ==
    /\ Len(result) = Cardinality(DOMAIN g._dependencies)
    /\ \A k \in DOMAIN g._dependencies :
          Cardinality({i \in 1..Len(result) : result[i] = k}) = 1

InGraphDependenciesFirst(g, result) ==
    \A i \in 1..Len(result) : \A d \in InGraphDeps(g, result[i]) :
       \E j \in 1..(i - 1) : result[j] = d

\* C30: on every graph built by add_object calls, topological_sort returns
\* and lists every object of the graph (one per lower-cased name) exactly
\* once, with or without cycles; without cycles every object comes after all
\* of its dependencies that are in the graph.
C30_SortListsEveryObjectOnce ==
    ret.kind = "sorted" =>
        /\ ListedOnce(call, ret.result)
        /\ ~HasCycle(call) => InGraphDependenciesFirst(call, ret.result)

\* a was added first and depends on b, which depends on c: no cycle, and the
\* sort lists c, b, a.
C30_Witness ==
    /\ ret.kind = "sorted"
    /\ call._objects = <<"a", "b", "c">>
    /\ InGraphDeps(call, "a") = {"b"} /\ InGraphDeps(call, "b") = {"c"}
    /\ ~HasCycle(call)
    /\ ret.result = <<"c", "b", "a">>

\* A graph with a cycle, sorted: every object is listed once.
C30_CycleSorted ==
    ret.kind = "sorted" /\ HasCycle(call) /\ Len(call._objects) = 3

====
